---- MODULE Spec2Model ----
(***************************************************************************)
(* Variable resolution of the draft CLI.                                   *)
(*                                                                         *)
(* The repository holds two revisions of pkg/prompts (both in              *)
(* src/unnamed/part_001):                                                  *)
(*   "v1"  lines 1-404: config.Variables and config.VariableDefaults are   *)
(*         slices; RunPromptsFromConfigWithSkipsIO ends with a pass that   *)
(*         substitutes literal defaults;                                   *)
(*   "v2"  lines 406-727: config.Variables is ranged over with a string    *)
(*         key (a Go map), every variable carries its own default fields,  *)
(*         and validations.Validate is called after a prompt.              *)
(* One run of the resolver is a record (pc, visited, inputs, ret, err and  *)
(* the logs of the calls made to the prompt dispatcher and the validator); *)
(* one loop iteration is one step.                                         *)
(*                                                                         *)
(* The specifications:                                                     *)
(*   Spec        one run of RunPromptsFromConfigWithSkipsIO;               *)
(*   SpecDet     two runs on the same declarations, skips and answers;     *)
(*   SpecCreate  one invocation of `draft create` (cmd/create.go, held in  *)
(*               src/pkg/safeguards/.../template.yaml from line 208), its  *)
(*               two resolutions and the calls it makes on the writer;     *)
(*   SpecValidate  one call of validations.Validate;                       *)
(*   SpecReplace   handleTemplateReplacement on one template text;         *)
(*   SpecCopy      osutil.CopyDir on one template tree, once for each      *)
(*                 TemplateWriter;                                         *)
(*   SpecEnsure    osutil.EnsureDirectory on one path, twice;              *)
(*   SpecPrompt    prompts.RunDefaultableStringPrompt on one question;     *)
(*   SpecChain     the resolver on three declarations that form a chain    *)
(*                 of references;                                          *)
(*   SpecFileMap   osutil.CopyDirToFileMap and osutil.CopyDir on one       *)
(*                 template tree;                                          *)
(*   SpecFill      WorkflowEnv.FillWorkflowEnv and then                    *)
(*                 prompts.RunPromptsForDeployTypeWithSkipsIO;             *)
(*   SpecWorkflow  one invocation of `draft generate-workflow`.            *)
(***************************************************************************)
EXTENDS Naturals, Sequences, FiniteSets, TLC

VARIABLES
    ver,          \* revision of pkg/prompts that runs: "v1" or "v2"
    decls,        \* the declaration set (config.Variables with the defaults)
    varsToSkip,   \* the names passed as varsToSkip
    run,          \* the run of RunPromptsFromConfigWithSkipsIO
    run2,         \* a second run on the same arguments (SpecDet only)
    answers,      \* SpecDet only: the user's answer for each variable name
    cc,           \* SpecCreate only: the createCmd, its globals and its output sink
    call          \* SpecValidate, SpecReplace, SpecCopy: one call of a function of
                  \* pkg/validations or pkg/osutil, its arguments and what it did

vars == <<ver, decls, varsToSkip, run, run2, answers, cc, call>>

-----------------------------------------------------------------------------
(* Bounds and value pools *)

\* Number of declarations of a declaration set.
MaxDecls == 2

NameSeq == <<"A", "B", "C", "D">>

\* The literal default a declaration may carry, and what the user may type.
DefaultValues == <<"dflta", "dfltb", "dfltc", "dfltd">>
TypedAnswers == <<"ua", "ub", "uc", "ud">>

\* The user interrupts the prompt (promptui returns ErrInterrupt / ErrEOF).
Abort == "<abort>"

\* Go's nil map / nil interface value.
Nil == "<nil>"

ErrNoDefault(name) ==
    "IsPromptDisabled is true for " \o name \o " but no default value was found"
ErrBlank == "input must be greater than 0"
ErrInterrupt == "^C"

-----------------------------------------------------------------------------
(* Go maps: m[k] of a missing key is the zero value "" *)

EmptyMap == [k \in {} |-> ""]

Get(m, k) == IF k \in DOMAIN m THEN m[k] ELSE ""

Put(m, k, v) == [x \in (DOMAIN m) \cup {k} |-> IF x = k THEN v ELSE m[x]]

\* A nil map[string]string, and a map returned as such.
NilMap == [isNil |-> TRUE, m |-> EmptyMap]

MapVal(m) == [isNil |-> FALSE, m |-> m]

\* No create command runs (Spec, SpecDet).
NoCmd == [pc |-> "none"]

\* No function call under way (every specification but the last three).
NoCall == [pc |-> "none"]

\* skipMap[v] = interface{}(nil) for every v of varsToSkip.
SkipMap(skip) == [v \in skip |-> Nil]

-----------------------------------------------------------------------------
(* The declaration set as revision v1 holds it: config.Variables and       *)
(* config.VariableDefaults, the latter with an entry only for a variable   *)
(* that has a default rule.                                                *)

HasDefaultRule(d) == d.Value # "" \/ d.ReferenceVar # "" \/ d.IsPromptDisabled

Variables(ds) == [i \in 1..Len(ds) |-> [Name |-> ds[i].Name, VarType |-> ds[i].Type]]

RECURSIVE VariableDefaultsFrom(_, _)
VariableDefaultsFrom(i, ds) ==
    IF i > Len(ds) THEN <<>>
    ELSE (IF HasDefaultRule(ds[i])
          THEN << [Name |-> ds[i].Name, Value |-> ds[i].Value,
                   ReferenceVar |-> ds[i].ReferenceVar,
                   IsPromptDisabled |-> ds[i].IsPromptDisabled] >>
          ELSE <<>>) \o VariableDefaultsFrom(i + 1, ds)

VariableDefaults(ds) == VariableDefaultsFrom(1, ds)

-----------------------------------------------------------------------------
(* Prompt dispatcher *)

AllowAllStringValidator(s) == ""

NoBlankStringValidator(s) == IF Len(s) <= 0 THEN ErrBlank ELSE ""

\* promptui calls Prompt.Validate, when one is set, on the text entered.
ApplyValidator(validatorFunc, s) ==
    CASE validatorFunc = "NoBlankStringValidator" -> NoBlankStringValidator(s)
      [] validatorFunc = "AllowAllStringValidator" -> AllowAllStringValidator(s)
      [] OTHER -> ""

\* Prompt.Run: the text the user leaves the prompt with, or an error when the
\* user interrupts or never enters a text the validator accepts.
PromptRun(validatorFunc, answer) ==
    IF answer = Abort THEN [input |-> "", err |-> ErrInterrupt]
    ELSE IF ApplyValidator(validatorFunc, answer) # ""
         THEN [input |-> "", err |-> ApplyValidator(validatorFunc, answer)]
         ELSE [input |-> answer, err |-> ""]

\* Select.Run over the items true, false: Enter takes the first item.
RunBoolPrompt(answer) ==
    IF answer = Abort THEN [input |-> "", err |-> ErrInterrupt]
    ELSE [input |-> IF answer = "" THEN "true" ELSE "false", err |-> ""]

\* RunDefaultableStringPrompt without the fallback to the seed after Prompt.Run.
RunDefaultableStringPromptNoFallback(defaultValue, validate, answer) ==
    LET validatorFunc == IF defaultValue # "" THEN "AllowAllStringValidator"
                         ELSE IF validate = Nil THEN "NoBlankStringValidator"
                         ELSE Nil
        p == PromptRun(validatorFunc, answer)
    IN  IF p.err # "" THEN [input |-> "", err |-> p.err]
        ELSE [input |-> p.input, err |-> ""]

RunDefaultableStringPrompt(defaultValue, validate, answer) ==
    LET validatorFunc == IF defaultValue # "" THEN "AllowAllStringValidator"
                         ELSE IF validate = Nil THEN "NoBlankStringValidator"
                         ELSE Nil
        defaultString == IF defaultValue # ""
                         THEN " (default: " \o defaultValue \o ")" ELSE ""
        p == PromptRun(validatorFunc, answer)
    IN  IF p.err # "" THEN [input |-> "", err |-> p.err]
        ELSE IF p.input = "" /\ defaultString # ""
             THEN [input |-> defaultValue, err |-> ""]
             ELSE [input |-> p.input, err |-> ""]

-----------------------------------------------------------------------------
(* Revision v1 of the resolver *)

RECURSIVE GetVariableDefaultValueFrom(_, _, _, _, _)
GetVariableDefaultValueFrom(i, defaultValue, variableName, variableDefaults, inputs) ==
    IF i > Len(variableDefaults) THEN defaultValue
    ELSE LET variableDefault == variableDefaults[i]
             next == IF variableDefault.Name # variableName THEN defaultValue
                     ELSE IF variableDefault.ReferenceVar # ""
                             /\ Get(inputs, variableDefault.ReferenceVar) # ""
                          THEN Get(inputs, variableDefault.ReferenceVar)
                          ELSE variableDefault.Value
         IN  GetVariableDefaultValueFrom(i + 1, next, variableName, variableDefaults, inputs)

\* GetVariableDefaultValue that reads the literal default only.
GetVariableDefaultValueLiteral(variableName, variableDefaults, inputs) ==
    GetVariableDefaultValueFrom(1, "", variableName, variableDefaults, EmptyMap)

\* GetVariableDefaultValue that goes on to the referenced variable's own default
\* rule when the referenced variable holds no value yet.
GetVariableDefaultValueTwoHops(variableName, variableDefaults, inputs) ==
    LET own == GetVariableDefaultValueFrom(1, "", variableName, variableDefaults, inputs)
        refs == {variableDefaults[i].ReferenceVar :
                    i \in {j \in 1..Len(variableDefaults) :
                              variableDefaults[j].Name = variableName}} \ {""}
        further == {GetVariableDefaultValueFrom(1, "", ref, variableDefaults, inputs) :
                       ref \in {x \in refs : Get(inputs, x) = ""}} \ {""}
    IN  IF further # {} THEN CHOOSE v \in further : TRUE ELSE own

GetVariableDefaultValue(variableName, variableDefaults, inputs) ==
    GetVariableDefaultValueFrom(1, "", variableName, variableDefaults, inputs)

RECURSIVE GetIsPromptDisabledFrom(_, _, _)
GetIsPromptDisabledFrom(i, variableName, variableDefaults) ==
    IF i > Len(variableDefaults) THEN FALSE
    ELSE IF variableDefaults[i].Name = variableName
         THEN variableDefaults[i].IsPromptDisabled
         ELSE GetIsPromptDisabledFrom(i + 1, variableName, variableDefaults)

\* GetIsPromptDisabled that finds no entry.
GetIsPromptDisabledNever(variableName, variableDefaults) == FALSE

GetIsPromptDisabled(variableName, variableDefaults) ==
    GetIsPromptDisabledFrom(1, variableName, variableDefaults)

\* The state of a run when RunPromptsFromConfigWithSkipsIO enters its loop.
NewRun == [pc |-> "loop", visited |-> {}, inputs |-> EmptyMap, ret |-> NilMap,
           err |-> "", prompts |-> <<>>, validations |-> <<>>]

\* `continue`: the iteration over `name` ends.
Continue(r, name) == [r EXCEPT !.visited = @ \cup {name}]

\* `return nil, err`.
ReturnError(r, name, e) ==
    [r EXCEPT !.visited = @ \cup {name}, !.pc = "done", !.ret = NilMap, !.err = e]

\* `return inputs, nil`.
ReturnInputs(r, m) == [r EXCEPT !.pc = "done", !.inputs = m, !.ret = MapVal(m), !.err = ""]

\* The branch for a disabled prompt without its check for an empty default.
NoPromptBranchUnchecked(r, name, noPromptDefaultValue) ==
    Continue([r EXCEPT !.inputs = Put(@, name, noPromptDefaultValue)], name)

\* The branch taken for a variable whose prompt is disabled.
NoPromptBranch(r, name, noPromptDefaultValue) ==
    IF noPromptDefaultValue = ""
    THEN ReturnError(r, name, ErrNoDefault(name))
    ELSE Continue([r EXCEPT !.inputs = Put(@, name, noPromptDefaultValue)], name)

\* A call of the prompt dispatcher and what the resolver does with its result.
PromptBranch(r, name, kind, seed, p) ==
    LET logged == [r EXCEPT !.prompts = Append(@, [name |-> name, kind |-> kind, seed |-> seed])]
    IN  IF p.err # "" THEN ReturnError(logged, name, p.err)
        ELSE [logged EXCEPT !.inputs = Put(@, name, p.input)]

\* One iteration of the loop over config.Variables.
LoopBody(variableDefaults, skipMap, r, customPrompt, answer) ==
    LET promptVariableName == customPrompt.Name
    IN  IF promptVariableName \in DOMAIN skipMap
        THEN Continue(r, promptVariableName)
        ELSE IF GetIsPromptDisabled(promptVariableName, variableDefaults)
        THEN NoPromptBranch(r, promptVariableName,
                 GetVariableDefaultValue(promptVariableName, variableDefaults, r.inputs))
        ELSE IF customPrompt.VarType = "bool"
        THEN LET b == PromptBranch(r, promptVariableName, "bool", "", RunBoolPrompt(answer))
             IN  IF b.pc = "done" THEN b ELSE Continue(b, promptVariableName)
        ELSE LET defaultValue == GetVariableDefaultValue(promptVariableName, variableDefaults, r.inputs)
                 s == PromptBranch(r, promptVariableName, "string", defaultValue,
                          RunDefaultableStringPrompt(defaultValue, Nil, answer))
             IN  IF s.pc = "done" THEN s ELSE Continue(s, promptVariableName)

\* "Substitute the default value for variables where the user didn't enter anything"
RECURSIVE SubstituteDefaultsFrom(_, _, _)
SubstituteDefaultsFrom(i, variableDefaults, inputs) ==
    IF i > Len(variableDefaults) THEN inputs
    ELSE LET variableDefault == variableDefaults[i]
         IN  SubstituteDefaultsFrom(i + 1, variableDefaults,
                 IF Get(inputs, variableDefault.Name) = ""
                 THEN Put(inputs, variableDefault.Name, variableDefault.Value)
                 ELSE inputs)

\* The pass after the loop with GetVariableDefaultValue in place of
\* variableDefault.Value.
RECURSIVE SubstituteDefaultsChasingFrom(_, _, _)
SubstituteDefaultsChasingFrom(i, variableDefaults, inputs) ==
    IF i > Len(variableDefaults) THEN inputs
    ELSE LET variableDefault == variableDefaults[i]
         IN  SubstituteDefaultsChasingFrom(i + 1, variableDefaults,
                 IF Get(inputs, variableDefault.Name) = ""
                 THEN Put(inputs, variableDefault.Name,
                          GetVariableDefaultValue(variableDefault.Name, variableDefaults, inputs))
                 ELSE inputs)

SubstituteDefaultsChasing(variableDefaults, inputs) ==
    SubstituteDefaultsChasingFrom(1, variableDefaults, inputs)

SubstituteDefaults(variableDefaults, inputs) == SubstituteDefaultsFrom(1, variableDefaults, inputs)

-----------------------------------------------------------------------------
(* pkg/validations *)

AcrMinLen == 5
AcrMaxLen == 50

\* The strings of the value pools that consist of the characters a-z, 0-9 only.
LowerAlnum == {DefaultValues[i] : i \in 1..Len(DefaultValues)}
                \cup {TypedAnswers[i] : i \in 1..Len(TypedAnswers)}
                \cup {"true", "false", "typed", "8080", "3000", "12", "80", "90", "ca", "cz"}

\* regexp.MatchString(`^[a-z0-9]{5,50}$`, value)
MatchesAcrPattern(value) ==
    Len(value) >= AcrMinLen /\ Len(value) <= AcrMaxLen /\ value \in LowerAlnum

\* env.azLogin: the operator is, or gets, logged in to the Azure CLI;
\* env.acrShow: `az acr show --name value` succeeds.
validateAzureContainerRegistry(value, env) ==
    IF ~env.azLogin THEN "failed to log in to Azure CLI"
    ELSE IF ~MatchesAcrPattern(value)
    THEN "registry name '" \o value
             \o "' does not meet Azure Container Registry naming requirements"
    ELSE IF ~env.acrShow THEN "failed to find Azure Container Registry " \o value
    ELSE ""

validateAzureClusterName(value) == ""

validateAzureResourceGroup(value) == ""

validateContainerName(value) == ""

validateDir(value) == ""

validateGitHubBranch(value) == ""

KnownRules == {"azContainerRegistry", "azClusterName", "azResourceGroup",
               "containerName", "dir", "ghBranch"}

\* What validateAzureContainerRegistry does besides returning: the calls it makes on
\* pkg/providers (the login attempt after IsLoggedInToAz is part of env.azLogin) and
\* the az command it runs, in order.
validateAzureContainerRegistryEffects(value, env) ==
    <<"validateAzureContainerRegistry", "providers.CheckAzCliInstalled",
      "providers.IsLoggedInToAz">>
        \o (IF env.azLogin /\ MatchesAcrPattern(value) THEN <<"az acr show">> ELSE <<>>)

\* The validator Validate dispatches to and everything that validator does, or the
\* log line of the fall-through.
ValidateEffects(name, variable, value, env) ==
    CASE variable.ValidateType = "azContainerRegistry" ->
             validateAzureContainerRegistryEffects(value, env)
      [] variable.ValidateType = "azClusterName" -> <<"validateAzureClusterName">>
      [] variable.ValidateType = "azResourceGroup" -> <<"validateAzureResourceGroup">>
      [] variable.ValidateType = "containerName" -> <<"validateContainerName">>
      [] variable.ValidateType = "dir" -> <<"validateDir">>
      [] variable.ValidateType = "ghBranch" -> <<"validateGitHubBranch">>
      [] OTHER -> <<"log.Debugf">>

\* Validate with a default case that rejects.
ValidateRejectsUnknown(name, variable, value, env) ==
    CASE variable.ValidateType = "azContainerRegistry" -> validateAzureContainerRegistry(value, env)
      [] variable.ValidateType \in KnownRules -> ""
      [] OTHER -> "no validation rule found for " \o name

Validate(name, variable, value, env) ==
    CASE variable.ValidateType = "azContainerRegistry" -> validateAzureContainerRegistry(value, env)
      [] variable.ValidateType = "azClusterName" -> validateAzureClusterName(value)
      [] variable.ValidateType = "azResourceGroup" -> validateAzureResourceGroup(value)
      [] variable.ValidateType = "containerName" -> validateContainerName(value)
      [] variable.ValidateType = "dir" -> validateDir(value)
      [] variable.ValidateType = "ghBranch" -> validateGitHubBranch(value)
      [] OTHER -> ""

Envs == [azLogin : BOOLEAN, acrShow : BOOLEAN]

\* The states of the outside world a validation of `variable` can tell apart: only
\* validateAzureContainerRegistry consults the Azure CLI.
EnvsFor(variable) ==
    IF variable.ValidateType = "azContainerRegistry" THEN Envs
    ELSE {[azLogin |-> TRUE, acrShow |-> TRUE]}

-----------------------------------------------------------------------------
(* Revision v2 of the resolver *)

GetVariableDefaultValueV2(variableName, variable, inputs) ==
    IF variable.ReferenceVar # "" /\ Get(inputs, variable.ReferenceVar) # ""
    THEN Get(inputs, variable.ReferenceVar)
    ELSE variable.Value

\* `err := validations.Validate(name, variable, inputs[name])`: the call is made and
\* its result is assigned to a variable nothing reads.
ValidateCall(r, name, variable, env) ==
    [r EXCEPT !.validations = Append(@, [name |-> name, value |-> Get(r.inputs, name),
                                         err |-> Validate(name, variable, Get(r.inputs, name), env)])]

\* One iteration of `for name, variable := range config.Variables`.
LoopBodyV2(skipMap, r, name, variable, answer, env) ==
    IF name \in DOMAIN skipMap /\ skipMap[name] # ""
    THEN Continue(r, name)
    ELSE IF variable.IsPromptDisabled
    THEN NoPromptBranch(r, name, GetVariableDefaultValueV2(name, variable, r.inputs))
    ELSE LET defaultValue == GetVariableDefaultValueV2(name, variable, r.inputs)
             p == IF variable.Type = "bool"
                  THEN PromptBranch(r, name, "bool", "", RunBoolPrompt(answer))
                  ELSE PromptBranch(r, name, "string", defaultValue,
                           RunDefaultableStringPrompt(defaultValue, Nil, answer))
         IN  IF p.pc = "done" THEN p
             ELSE Continue(ValidateCall(p, name, variable, env), name)

-----------------------------------------------------------------------------
(* Declaration sets, skip sets and answers the model draws from *)

NameIndex(name) == CHOOSE i \in 1..Len(NameSeq) : NameSeq[i] = name

DeclNames(ds) == {ds[i].Name : i \in 1..Len(ds)}

DeclOf(ds, name) == ds[CHOOSE i \in 1..Len(ds) : ds[i].Name = name]

\* The i-th declaration of a set of n: a bool variable, or a string variable with
\* or without a literal default, a reference to another declaration and a
\* disabled prompt.  (Both revisions of the resolver read Type only on the path
\* that prompts, and the bool prompt reads no default.)
DeclChoices(i, n) ==
    { [Name |-> NameSeq[i], Type |-> "bool", Value |-> "", ReferenceVar |-> "",
       IsPromptDisabled |-> FALSE, ValidateType |-> ""] }
    \cup
    { [Name |-> NameSeq[i], Type |-> "string", Value |-> v, ReferenceVar |-> ref,
       IsPromptDisabled |-> pd, ValidateType |-> ""] :
         v \in {"", DefaultValues[i]},
         ref \in {""} \cup {NameSeq[j] : j \in (1..n) \ {i}},
         pd \in BOOLEAN }

RECURSIVE DeclSeqs(_, _)
DeclSeqs(i, n) ==
    IF i > n THEN {<<>>}
    ELSE {<<d>> \o rest : d \in DeclChoices(i, n), rest \in DeclSeqs(i + 1, n)}

\* Revision v2 only: at most one declaration names a validation rule, a known
\* one or an unknown one.  The declarations of revision v2 are the entries of a
\* map, which has no order, so the one with the rule is taken to be the first.
RuleChoices == {"azContainerRegistry", "noSuchRule"}

WithRules(ds) == {ds} \cup {[ds EXCEPT ![1].ValidateType = rule] : rule \in RuleChoices}

\* The names a declaration reaches by following ReferenceVar at most k times.
RECURSIVE Reaches(_, _, _)
Reaches(ds, name, k) ==
    IF k = 0 \/ name \notin DeclNames(ds) \/ DeclOf(ds, name).ReferenceVar = "" THEN {}
    ELSE {DeclOf(ds, name).ReferenceVar} \cup Reaches(ds, DeclOf(ds, name).ReferenceVar, k - 1)

\* The data model's invariant: no declaration references itself, directly or
\* through other declarations.
Acyclic(ds) == \A n \in DeclNames(ds) : n \notin Reaches(ds, n, Len(ds))

ConfigsOf(v) ==
    LET base == {ds \in UNION {DeclSeqs(1, n) : n \in 1..MaxDecls} : Acyclic(ds)}
    IN  IF v = "v1" THEN base ELSE UNION {WithRules(ds) : ds \in base}

\* What the user may do at the prompt for `name`: press Enter, type, interrupt.
AnswerSet(name) ==
    {"", Abort} \cup (IF \E i \in 1..Len(NameSeq) : NameSeq[i] = name
                      THEN {TypedAnswers[NameIndex(name)]} ELSE {"typed"})

-----------------------------------------------------------------------------
(* One invocation of RunPromptsFromConfigWithSkipsIO *)

\* The variable the next iteration of revision v1 takes: the slice in order.
NextVariable(ds, r) == Variables(ds)[Cardinality(r.visited) + 1]

\* The keys the range over the map of revision v2 has not produced yet.
Unvisited(ds, r) == DeclNames(ds) \ r.visited

StepV1(ds, skip, r, answer) ==
    LoopBody(VariableDefaults(ds), SkipMap(skip), r, NextVariable(ds, r), answer)

\* The pass after the loop, and the return.
DefaultsPassV1(ds, r) == ReturnInputs(r, SubstituteDefaults(VariableDefaults(ds), r.inputs))

StepV2(ds, skip, r, name, answer, env) ==
    LoopBodyV2(SkipMap(skip), r, name, DeclOf(ds, name), answer, env)

ReturnV2(r) == ReturnInputs(r, r.inputs)

Init ==
    /\ ver \in {"v1", "v2"}
    /\ decls \in ConfigsOf(ver)
    /\ varsToSkip \in SUBSET DeclNames(decls)
    /\ run = NewRun
    /\ run2 = NewRun
    /\ answers = EmptyMap
    /\ cc = NoCmd
    /\ call = NoCall

ResolveV1 ==
    /\ ver = "v1" /\ run.pc = "loop" /\ Cardinality(run.visited) < Len(decls)
    /\ run' \in {StepV1(decls, varsToSkip, run, answer) :
                   answer \in AnswerSet(NextVariable(decls, run).Name)}
    /\ UNCHANGED <<call, ver, decls, varsToSkip, run2, answers, cc>>

SubstituteAndReturnV1 ==
    /\ ver = "v1" /\ run.pc = "loop" /\ Cardinality(run.visited) = Len(decls)
    /\ run' = DefaultsPassV1(decls, run)
    /\ UNCHANGED <<call, ver, decls, varsToSkip, run2, answers, cc>>

ResolveV2 ==
    /\ ver = "v2" /\ run.pc = "loop"
    /\ \E name \in Unvisited(decls, run) :
            run' \in {StepV2(decls, varsToSkip, run, name, answer, env) :
                         answer \in AnswerSet(name), env \in EnvsFor(DeclOf(decls, name))}
    /\ UNCHANGED <<call, ver, decls, varsToSkip, run2, answers, cc>>

FinishV2 ==
    /\ ver = "v2" /\ run.pc = "loop" /\ Unvisited(decls, run) = {}
    /\ run' = ReturnV2(run)
    /\ UNCHANGED <<call, ver, decls, varsToSkip, run2, answers, cc>>

Next == ResolveV1 \/ SubstituteAndReturnV1 \/ ResolveV2 \/ FinishV2

Spec == Init /\ [][Next]_vars

-----------------------------------------------------------------------------
(* SpecChain: one invocation on declarations C -> B -> A *)

\* The chain.
Chain == <<"C", "B", "A">>

\* c references b and b references a.
IsChain(ds, c, b, a) ==
    /\ {c, b, a} \subseteq DeclNames(ds)
    /\ DeclOf(ds, c).ReferenceVar = b
    /\ DeclOf(ds, b).ReferenceVar = a

\* The declaration sets of as many declarations as the chain has that form such a
\* chain, declared in any order.
ChainConfigs ==
    {ds \in DeclSeqs(1, Len(Chain)) :
        /\ Acyclic(ds)
        /\ \E c \in DeclNames(ds), b \in DeclNames(ds), a \in DeclNames(ds) : IsChain(ds, c, b, a)}

InitChain ==
    /\ ver \in {"v1", "v2"}
    /\ decls \in ChainConfigs
    /\ varsToSkip = {}
    /\ run = NewRun
    /\ run2 = NewRun
    /\ answers = EmptyMap
    /\ cc = NoCmd
    /\ call = NoCall

SpecChain == InitChain /\ [][Next]_vars

-----------------------------------------------------------------------------
(* Two invocations on the same declarations, skip set and answers *)

\* The states one more step of the resolver can lead to when the user answers the
\* prompt for a variable with answers[that variable].
DetStep(r) ==
    IF ver = "v1"
    THEN IF Cardinality(r.visited) < Len(decls)
         THEN {StepV1(decls, varsToSkip, r, answers[NextVariable(decls, r).Name])}
         ELSE {DefaultsPassV1(decls, r)}
    ELSE IF Unvisited(decls, r) = {}
         THEN {ReturnV2(r)}
         ELSE {StepV2(decls, varsToSkip, r, name, answers[name], env) :
                  name \in Unvisited(decls, r), env \in Envs}

InitDet ==
    /\ ver \in {"v1", "v2"}
    /\ decls \in ConfigsOf(ver)
    /\ varsToSkip \in SUBSET DeclNames(decls)
    /\ answers \in {f \in [DeclNames(decls) -> UNION {AnswerSet(n) : n \in DeclNames(decls)}] :
                       \A n \in DeclNames(decls) : f[n] \in AnswerSet(n)}
    /\ run = NewRun
    /\ run2 = NewRun
    /\ cc = NoCmd
    /\ call = NoCall

FirstRun ==
    /\ run.pc = "loop"
    /\ run' \in DetStep(run)
    /\ UNCHANGED <<call, ver, decls, varsToSkip, run2, answers, cc>>

SecondRun ==
    /\ run.pc = "done" /\ run2.pc = "loop"
    /\ run2' \in DetStep(run2)
    /\ UNCHANGED <<call, ver, decls, varsToSkip, run, answers, cc>>

NextDet == FirstRun \/ SecondRun

SpecDet == InitDet /\ [][NextDet]_vars

-----------------------------------------------------------------------------
(* cmd/create.go: strings, maps and the config-document path *)

\* Number of declarations of the deployment config of a create invocation.
MaxCreateDecls == 1

\* A Go string given character by character, and the string it is.
RECURSIVE Join(_)
Join(chars) == IF chars = <<>> THEN "" ELSE Head(chars) \o Join(Tail(chars))

\* strings.Cut(s, sep): the text before and after the first sep, and whether
\* sep occurs.
StringsCut(s, sep) ==
    LET hits == {i \in 1..Len(s) : s[i] = sep}
    IN  IF hits = {} THEN [before |-> Join(s), after |-> "", found |-> FALSE]
        ELSE LET i == CHOOSE h \in hits : \A g \in hits : h <= g
             IN  [before |-> Join(SubSeq(s, 1, i - 1)),
                  after |-> Join(SubSeq(s, i + 1, Len(s))), found |-> TRUE]

\* The loop over cc.flagVariables with `continue` where it has `return`: an
\* argument without "=" is passed over.
RECURSIVE ParseFlagVariablesLenient(_, _, _)
ParseFlagVariablesLenient(i, flagVariables, flagVariablesMap) ==
    IF i > Len(flagVariables) THEN [m |-> flagVariablesMap, err |-> ""]
    ELSE LET cut == StringsCut(flagVariables[i], "=")
         IN  ParseFlagVariablesLenient(i + 1, flagVariables,
                 IF cut.found THEN Put(flagVariablesMap, cut.before, cut.after)
                 ELSE flagVariablesMap)

\* The loop over cc.flagVariables in run(): it fills the package variable
\* flagVariablesMap and stops at the first argument without "=".
RECURSIVE ParseFlagVariables(_, _, _)
ParseFlagVariables(i, flagVariables, flagVariablesMap) ==
    IF i > Len(flagVariables) THEN [m |-> flagVariablesMap, err |-> ""]
    ELSE LET cut == StringsCut(flagVariables[i], "=")
         IN  IF ~cut.found
             THEN [m |-> flagVariablesMap,
                   err |-> "invalid variable format: " \o Join(flagVariables[i])]
             ELSE ParseFlagVariables(i + 1, flagVariables,
                                     Put(flagVariablesMap, cut.before, cut.after))

\* maps.Copy(dst, src) with every key of src overwritten in dst -- turned around:
\* a key dst already holds keeps dst's value.
MapsCopyKeepsDst(dst, src) ==
    [k \in (DOMAIN dst) \cup (DOMAIN src) |-> IF k \in DOMAIN dst THEN dst[k] ELSE src[k]]

\* maps.Copy(dst, src).
MapsCopy(dst, src) ==
    [k \in (DOMAIN dst) \cup (DOMAIN src) |-> IF k \in DOMAIN src THEN src[k] ELSE dst[k]]

\* The first loop of validateConfigInputsToPrompts with the assignment made to a
\* copy of the variable: no provided value reaches the declarations.
RECURSIVE SetProvidedValuesOnCopy(_, _, _, _)
SetProvidedValuesOnCopy(i, ds, provided, values) ==
    IF i > Len(provided) THEN [m |-> values, err |-> ""]
    ELSE IF provided[i].Name \notin DeclNames(ds)
         THEN [m |-> values, err |-> "validate config inputs to prompts: " \o provided[i].Name]
         ELSE SetProvidedValuesOnCopy(i + 1, ds, provided, values)

\* The first loop of validateConfigInputsToPrompts: every provided variable must
\* be declared (draftConfig.GetVariable), and its Value is set.
RECURSIVE SetProvidedValues(_, _, _, _)
SetProvidedValues(i, ds, provided, values) ==
    IF i > Len(provided) THEN [m |-> values, err |-> ""]
    ELSE IF provided[i].Name \notin DeclNames(ds)
         THEN [m |-> values, err |-> "validate config inputs to prompts: " \o provided[i].Name]
         ELSE SetProvidedValues(i + 1, ds, provided,
                                Put(values, provided[i].Name, provided[i].Value))

\* draftConfig.ApplyDefaultVariables(customInputs): a variable the config document
\* gives a value takes it verbatim; any other takes its default, the referenced
\* variable's value first; a variable left without a value is an error.
RECURSIVE ApplyDefaultVariables(_, _, _, _)
ApplyDefaultVariables(i, ds, values, customInputs) ==
    IF i > Len(ds) THEN [m |-> customInputs, err |-> ""]
    ELSE LET d == ds[i]
             value == IF Get(values, d.Name) # "" THEN values[d.Name]
                      ELSE IF d.ReferenceVar # "" /\ Get(customInputs, d.ReferenceVar) # ""
                           THEN customInputs[d.ReferenceVar]
                           ELSE d.Value
         IN  IF value = ""
             THEN [m |-> customInputs, err |-> "variable " \o d.Name \o " has no default value"]
             ELSE ApplyDefaultVariables(i + 1, ds, values, Put(customInputs, d.Name, value))

\* The last loop of validateConfigInputsToPrompts.
RECURSIVE CheckRequired(_, _, _)
CheckRequired(i, ds, customInputs) ==
    IF i > Len(ds) THEN ""
    ELSE IF ds[i].Name \notin DOMAIN customInputs
         THEN "config missing required variable: " \o ds[i].Name
         ELSE IF customInputs[ds[i].Name] = ""
              THEN "value for variable " \o ds[i].Name \o " is empty"
              ELSE CheckRequired(i + 1, ds, customInputs)

validateConfigInputsToPrompts(draftConfig, provided) ==
    LET set == SetProvidedValues(1, draftConfig, provided, EmptyMap)
        applied == ApplyDefaultVariables(1, draftConfig, set.m, EmptyMap)
    IN  IF set.err # "" THEN [ret |-> NilMap, err |-> set.err]
        ELSE IF applied.err # ""
             THEN [ret |-> NilMap,
                   err |-> "validate config inputs to prompts: " \o applied.err]
             ELSE IF CheckRequired(1, draftConfig, applied.m) # ""
                  THEN [ret |-> NilMap, err |-> CheckRequired(1, draftConfig, applied.m)]
                  ELSE [ret |-> MapVal(applied.m), err |-> ""]

-----------------------------------------------------------------------------
(* pkg/osutil: materialization of a template tree through a TemplateWriter *)

\* A template tree: files carry their text in pieces, a marker being one piece.
File(name, content) == [name |-> name, isDir |-> FALSE, files |-> <<>>, content |-> content]

Dir(name, files) == [name |-> name, isDir |-> TRUE, files |-> files, content |-> <<>>]

\* The embedded trees template.Dockerfiles and template.Deployments of one
\* language and one deployment type.
\* fs.ReadDir returns the entries of a directory sorted by filename.
DockerfileTemplates ==
    << File("Dockerfile", <<"EXPOSE ", "{{PORT}}", " ENV ", "{{A}}">>),
       File("draft.yaml", <<"variables:">>) >>

DeploymentTemplates ==
    << Dir("charts", << File("values.yaml", <<"a: ", "{{A}}", " b: ", "{{B}}">>) >>),
       File("deployment.yaml", <<"port: ", "{{PORT}}">>),
       File("draft.yaml", <<"variables:">>) >>

\* config.GetNameOverride of the deployment config.
DeploymentNameOverrides == [n \in {"deployment.yaml"} |-> "helm-"]

RECURSIVE CountNodes(_, _)
CountNodes(i, files) ==
    IF i > Len(files) THEN 0
    ELSE (IF files[i].name = "draft.yaml" THEN 0
          ELSE IF files[i].isDir THEN 1 + CountNodes(1, files[i].files) ELSE 1)
         + CountNodes(i + 1, files)

\* The orders in which a range over a map with the keys S can produce them.
RECURSIVE Perms(_)
Perms(S) ==
    IF S = {} THEN {<<>>}
    ELSE UNION {{<<x>> \o p : p \in Perms(S \ {x})} : x \in S}

\* strings.ReplaceAll on a text given in pieces.
ReplaceAll(fileString, old, new) ==
    [i \in 1..Len(fileString) |-> IF fileString[i] = old THEN new ELSE fileString[i]]

\* The range over customInputs, in the order `order`.
RECURSIVE ReplaceEach(_, _, _, _)
ReplaceEach(i, fileString, customInputs, order) ==
    IF i > Len(order) THEN fileString
    ELSE ReplaceEach(i + 1,
             ReplaceAll(fileString, "{{" \o order[i] \o "}}", customInputs[order[i]]),
             customInputs, order)

handleTemplateReplacement(content, customInputs, order) ==
    Join(ReplaceEach(1, content, customInputs, order))

\* checkNameOverrides that returns the prefix in place of the prefixed name.
checkNameOverridesPrefixOnly(fileName, config) ==
    IF ~config.isNil /\ Get(config.nameOverrides, fileName) # ""
    THEN config.nameOverrides[fileName]
    ELSE fileName

checkNameOverrides(fileName, config) ==
    IF ~config.isNil /\ Get(config.nameOverrides, fileName) # ""
    THEN config.nameOverrides[fileName] \o fileName
    ELSE fileName

\* A call of the TemplateWriter: it is appended to the sink's log, with the
\* destination directory CopyDir is in and the name of the entry it is at; the
\* failAt-th call of the log is the one the writer answers with an error.
SinkCall(sink, op, dir, name, path, data, failAt) ==
    LET ok == Len(sink.calls) + 1 # failAt
    IN  [calls |-> Append(sink.calls, [op |-> op, dir |-> dir, name |-> name,
                                       path |-> path, data |-> data, ok |-> ok]),
         err |-> IF ok THEN ""
                 ELSE IF op = "EnsureDirectory" THEN "could not create " \o path
                 ELSE "could not write " \o path]

\* CopyDir without the test of the reserved name: draft.yaml is copied like any
\* other entry.
RECURSIVE CopyDirFromCopiesAll(_, _, _, _, _, _, _, _)
CopyDirFromCopiesAll(i, files, dest, config, customInputs, order, failAt, sink) ==
    IF sink.err # "" \/ i > Len(files) THEN sink
    ELSE LET f == files[i]
             destPath == dest \o "/" \o f.name
         IN  IF f.isDir
             THEN LET made == SinkCall(sink, "EnsureDirectory", dest, f.name, destPath, "", failAt)
                      sub == CopyDirFromCopiesAll(1, f.files, destPath, config, customInputs,
                                                  order, failAt, made)
                  IN  CopyDirFromCopiesAll(i + 1, files, dest, config, customInputs, order,
                                           failAt, sub)
             ELSE LET fileString == handleTemplateReplacement(f.content, customInputs, order)
                      fileName == checkNameOverrides(f.name, config)
                      written == SinkCall(sink, "WriteFile", dest, f.name,
                                          dest \o "/" \o fileName, fileString, failAt)
                  IN  CopyDirFromCopiesAll(i + 1, files, dest, config, customInputs, order,
                                           failAt, written)

\* CopyDir with the result of EnsureDirectory dropped: it recurses into the
\* directory whether or not the directory could be made.
RECURSIVE CopyDirFromUncheckedEnsure(_, _, _, _, _, _, _, _)
CopyDirFromUncheckedEnsure(i, files, dest, config, customInputs, order, failAt, sink) ==
    IF sink.err # "" \/ i > Len(files) THEN sink
    ELSE LET f == files[i]
             destPath == dest \o "/" \o f.name
         IN  IF f.name = "draft.yaml"
             THEN CopyDirFromUncheckedEnsure(i + 1, files, dest, config, customInputs, order,
                                             failAt, sink)
             ELSE IF f.isDir
             THEN LET made == SinkCall(sink, "EnsureDirectory", dest, f.name, destPath, "", failAt)
                      sub == CopyDirFromUncheckedEnsure(1, f.files, destPath, config,
                                 customInputs, order, failAt, [made EXCEPT !.err = ""])
                  IN  CopyDirFromUncheckedEnsure(i + 1, files, dest, config, customInputs,
                                                 order, failAt, sub)
             ELSE LET fileString == handleTemplateReplacement(f.content, customInputs, order)
                      fileName == checkNameOverrides(f.name, config)
                      written == SinkCall(sink, "WriteFile", dest, f.name,
                                          dest \o "/" \o fileName, fileString, failAt)
                  IN  CopyDirFromUncheckedEnsure(i + 1, files, dest, config, customInputs,
                                                 order, failAt, written)

RECURSIVE CopyDirFrom(_, _, _, _, _, _, _, _)
CopyDirFrom(i, files, dest, config, customInputs, order, failAt, sink) ==
    IF sink.err # "" \/ i > Len(files) THEN sink
    ELSE LET f == files[i]
             destPath == dest \o "/" \o f.name
         IN  IF f.name = "draft.yaml"
             THEN CopyDirFrom(i + 1, files, dest, config, customInputs, order, failAt, sink)
             ELSE IF f.isDir
             THEN LET made == SinkCall(sink, "EnsureDirectory", dest, f.name, destPath, "", failAt)
                      sub == CopyDirFrom(1, f.files, destPath, config, customInputs,
                                         order, failAt, made)
                  IN  CopyDirFrom(i + 1, files, dest, config, customInputs, order, failAt, sub)
             ELSE LET fileString == handleTemplateReplacement(f.content, customInputs, order)
                      fileName == checkNameOverrides(f.name, config)
                      written == SinkCall(sink, "WriteFile", dest, f.name,
                                          dest \o "/" \o fileName, fileString, failAt)
                  IN  CopyDirFrom(i + 1, files, dest, config, customInputs, order, failAt, written)

CopyDir(files, dest, config, customInputs, order, failAt, sink) ==
    CopyDirFrom(1, files, dest, config, customInputs, order, failAt, sink)

\* languages.CreateDockerfileForLanguage and deployments.CopyDeploymentFiles:
\* the materialization of the language's and of the deployment type's tree.
CreateDockerfileForLanguage(inputs, order, failAt, sink) ==
    CopyDir(DockerfileTemplates, ".", [isNil |-> FALSE, nameOverrides |-> EmptyMap],
            inputs, order, failAt, sink)

CopyDeploymentFiles(customInputs, order, failAt, sink) ==
    CopyDir(DeploymentTemplates, ".",
            [isNil |-> FALSE, nameOverrides |-> DeploymentNameOverrides],
            customInputs, order, failAt, sink)

-----------------------------------------------------------------------------
(* cmd/create.go: one invocation of `draft create` *)

ErrNoLanguageDetected == "no supported languages were detected"

LANGUAGE_VARIABLE == "LANGUAGE"

\* The --variable arguments an invocation may carry.
FlagA == <<"A", "=", "f", "a">>
FlagA2 == <<"A", "=", "f", "b">>
FlagAEq == <<"A", "=", "x", "=", "y">>
FlagBEmpty == <<"B", "=">>
FlagPort == <<"P", "O", "R", "T", "=", "9", "0">>
FlagNoEq == <<"A", "f", "a">>

FlagChoices ==
    {<<>>, <<FlagA, FlagA2>>, <<FlagAEq, FlagPort, FlagBEmpty>>, <<FlagPort, FlagNoEq>>,
     <<FlagNoEq, FlagA>>}

\* The config document (--create-config): no deployment section, or a deployment
\* type with the variables it provides; no language section, or one.
CreateConfigs ==
    { [DeployType |-> d.dt, DeployVariables |-> d.dv, LanguageVariables |-> lv] :
        d \in {[dt |-> "", dv |-> <<>>]}
               \cup {[dt |-> "helm", dv |-> dv] :
                        dv \in {<<>>, << [Name |-> "A", Value |-> "ca"] >>,
                                << [Name |-> "Z", Value |-> "cz"] >>}},
        lv \in {[isNil |-> TRUE, vars |-> <<>>],
                [isNil |-> FALSE, vars |-> << [Name |-> "PORT", Value |-> "80"] >>]} }

\* The draft.yaml of the language: one variable PORT, with a default and a
\* disabled prompt, with a disabled prompt only, or with neither.
LangConfigs ==
    { << [Name |-> "PORT", Type |-> "string", Value |-> d.v, ReferenceVar |-> "",
          IsPromptDisabled |-> d.pd, ValidateType |-> ""] >> :
        d \in {[v |-> "8080", pd |-> TRUE], [v |-> "", pd |-> TRUE], [v |-> "", pd |-> FALSE]} }

\* The draft.yaml of the deployment type.
DeployConfigs ==
    {ds \in UNION {DeclSeqs(1, n) : n \in 1..MaxCreateDecls} : Acyclic(ds)}

\* What supportedLangs.ExtractDefaults reads from the repository.
ExtractedChoices == {EmptyMap, [k \in {"PORT"} |-> "3000"], [k \in {"VERSION"} |-> "12"]}

\* "Check for existing duplicate defaults": an extracted value becomes the default
\* of the variable of that name, or a new variable with that default.
RECURSIVE MergeExtracted(_, _, _)
MergeExtracted(langConfig, extractedValues, keys) ==
    IF keys = {} THEN langConfig
    ELSE LET k == CHOOSE x \in keys : TRUE
             merged == IF k \in DeclNames(langConfig)
                       THEN [i \in 1..Len(langConfig) |->
                               IF langConfig[i].Name = k
                               THEN [langConfig[i] EXCEPT !.Value = extractedValues[k]]
                               ELSE langConfig[i]]
                       ELSE Append(langConfig,
                                [Name |-> k, Type |-> "", Value |-> extractedValues[k],
                                 ReferenceVar |-> "", IsPromptDisabled |-> FALSE,
                                 ValidateType |-> ""])
         IN  MergeExtracted(merged, extractedValues, keys \ {k})

\* The steps RunPromptsFromConfigWithSkips can take next on the declarations ds.
ResolverSteps(ds, skip, r) ==
    IF ver = "v1"
    THEN IF Cardinality(r.visited) < Len(ds)
         THEN {StepV1(ds, skip, r, answer) : answer \in AnswerSet(NextVariable(ds, r).Name)}
         ELSE {DefaultsPassV1(ds, r)}
    ELSE IF Unvisited(ds, r) = {}
         THEN {ReturnV2(r)}
         ELSE UNION {{StepV2(ds, skip, r, name, answer, env) :
                         answer \in AnswerSet(name), env \in EnvsFor(DeclOf(ds, name))} :
                     name \in Unvisited(ds, r)}

\* templateVariableRecorder.Record(k, v) for every entry of inputs, when the
\* recorder is set (dry run).
RecordAll(c, inputs) ==
    IF c.dryRun THEN [c EXCEPT !.recorded = MapsCopy(@, inputs)] ELSE c

\* run() after createFiles has returned err.
ReturnFromCreateFiles(c, err) ==
    [(IF c.dryRun THEN [c EXCEPT !.recorded = Put(@, LANGUAGE_VARIABLE, "lang")] ELSE c)
        EXCEPT !.pc = "done", !.err = err]

\* The calls the writer may answer with an error during the next materialization
\* of `tree`: none (0), or one of them.
FailChoices(c, tree) ==
    {0} \cup ((Len(c.sink.calls) + 1)..(Len(c.sink.calls) + CountNodes(1, tree)))

InitCreate ==
    /\ ver \in {"v1", "v2"}
    /\ decls = <<>>
    /\ varsToSkip = {}
    /\ run = NewRun
    /\ run2 = NewRun
    /\ answers = EmptyMap
    /\ call = NoCall
    /\ cc \in { [pc |-> "run", flagVariables |-> fv, flagVariablesMap |-> EmptyMap,
                 dockerfileOnly |-> dfo, deploymentOnly |-> dpo, dryRun |-> dry,
                 skipFileDetection |-> FALSE, hasDeploymentFiles |-> FALSE,
                 createConfig |-> cfg, langConfig |-> <<>>,
                 recorded |-> EmptyMap, sink |-> [calls |-> <<>>, err |-> ""],
                 dockerResolved |-> NilMap, deployResolved |-> NilMap,
                 dockerRecorded |-> NilMap, deployRecorded |-> NilMap,
                 dockerInputs |-> NilMap, deployInputs |-> NilMap, err |-> ""] :
                fv \in FlagChoices, dfo \in BOOLEAN, dpo \in BOOLEAN, dry \in BOOLEAN,
                cfg \in CreateConfigs }

\* run() up to the first stage of createFiles: the --variable arguments, the
\* writer, detectLanguage, and the check of createFiles before any stage.
CreateRun ==
    /\ cc.pc = "run"
    /\ LET parsed == ParseFlagVariables(1, cc.flagVariables, cc.flagVariablesMap)
           c == [cc EXCEPT !.flagVariablesMap = parsed.m]
       IN  IF parsed.err # ""
           THEN cc' = [c EXCEPT !.pc = "done", !.err = parsed.err]
           ELSE \/ cc' = [c EXCEPT !.pc = "done", !.err = ErrNoLanguageDetected]
                \/ \E langConfig \in LangConfigs :
                      cc' = IF c.dockerfileOnly /\ c.deploymentOnly
                            THEN ReturnFromCreateFiles([c EXCEPT !.langConfig = langConfig],
                                   "can only pass in one of --dockerfile-only and --deployment-only")
                            ELSE [c EXCEPT !.pc = "dockerfile", !.langConfig = langConfig]
    /\ UNCHANGED <<call, ver, decls, varsToSkip, run, run2, answers>>

\* generateDockerfile after the resolution of the language's variables.
FinishDockerfile(c, inputs, order, failAt) ==
    LET recorded == RecordAll(c, inputs)
        handed == MapsCopy(inputs, c.flagVariablesMap)
        sink == CreateDockerfileForLanguage(handed, order, failAt, c.sink)
        written == [recorded EXCEPT !.dockerResolved = MapVal(inputs),
                                    !.dockerRecorded = IF c.dryRun THEN MapVal(inputs)
                                                       ELSE NilMap,
                                    !.dockerInputs = MapVal(handed), !.sink = sink]
    IN  IF sink.err # ""
        THEN ReturnFromCreateFiles([written EXCEPT !.sink.err = ""],
                 "there was an error when creating the Dockerfile for language : " \o sink.err)
        ELSE [written EXCEPT !.pc = "deployment"]

\* The outcomes of filematches.SearchDirectory, when createFiles calls it.
SearchResults(c) ==
    IF c.skipFileDetection THEN {[ok |-> TRUE, hasDockerFile |-> FALSE, hasDeploymentFiles |-> FALSE]}
    ELSE {[ok |-> FALSE, hasDockerFile |-> FALSE, hasDeploymentFiles |-> FALSE]}
         \cup {[ok |-> TRUE, hasDockerFile |-> a, hasDeploymentFiles |-> b] :
                  a \in BOOLEAN, b \in BOOLEAN}

\* generateDockerfile up to the resolution of the language's variables.
StartDockerfile(c, extractedValues) ==
    LET merged == [c EXCEPT !.langConfig =
                        MergeExtracted(@, extractedValues, DOMAIN extractedValues)]
        fromConfig == validateConfigInputsToPrompts(merged.langConfig,
                                                    c.createConfig.LanguageVariables.vars)
    IN  IF c.createConfig.LanguageVariables.isNil
        THEN {[merged EXCEPT !.pc = "dockerfilePrompts"]}
        ELSE IF fromConfig.err # ""
        THEN {ReturnFromCreateFiles(merged, fromConfig.err)}
        ELSE {FinishDockerfile(merged, fromConfig.ret.m, order, failAt) :
                 order \in Perms(DOMAIN MapsCopy(fromConfig.ret.m, c.flagVariablesMap)),
                 failAt \in FailChoices(c, DockerfileTemplates)}

\* createFiles: the search of the directory, whether the Dockerfile is
\* (re)created, and generateDockerfile up to the resolution of its variables.
DockerfileStage ==
    /\ cc.pc = "dockerfile"
    /\ \E skip \in BOOLEAN :
       \E found \in SearchResults([cc EXCEPT !.skipFileDetection = skip]) :
          LET c == [cc EXCEPT !.skipFileDetection = skip,
                              !.hasDeploymentFiles = found.hasDeploymentFiles]
              asked == ~skip /\ found.hasDockerFile /\ ~c.deploymentOnly
          IN  IF ~found.ok
              THEN cc' = ReturnFromCreateFiles(c, "search directory failed")
              ELSE \E answer \in IF asked THEN {"yes", "no", Abort} ELSE {"-"} :
                      LET hasDockerFile == IF asked THEN answer = "no" ELSE found.hasDockerFile
                          generate == IF skip THEN ~c.deploymentOnly
                                      ELSE ~c.deploymentOnly /\ ~hasDockerFile
                      IN  IF answer = Abort
                          THEN cc' = ReturnFromCreateFiles(c, ErrInterrupt)
                          ELSE IF ~generate
                          THEN cc' = [c EXCEPT !.pc = "deployment"]
                          ELSE \/ cc' = ReturnFromCreateFiles(c, "extract defaults failed")
                               \/ \E extractedValues \in ExtractedChoices :
                                     cc' \in StartDockerfile(c, extractedValues)
    /\ run2' = NewRun
    /\ UNCHANGED <<call, ver, decls, varsToSkip, run, answers>>

\* One iteration of prompts.RunPromptsFromConfigWithSkips(langConfig).
DockerfilePrompt ==
    /\ cc.pc = "dockerfilePrompts" /\ run2.pc = "loop"
    /\ run2' \in ResolverSteps(cc.langConfig, {}, run2)
    /\ UNCHANGED <<call, ver, decls, varsToSkip, run, answers, cc>>

\* generateDockerfile from the return of the resolver.
DockerfileResolved ==
    /\ cc.pc = "dockerfilePrompts" /\ run2.pc = "done"
    /\ IF run2.err # ""
       THEN cc' = ReturnFromCreateFiles(cc, run2.err)
       ELSE cc' \in {FinishDockerfile(cc, run2.ret.m, order, failAt) :
                        order \in Perms(DOMAIN MapsCopy(run2.ret.m, cc.flagVariablesMap)),
                        failAt \in FailChoices(cc, DockerfileTemplates)}
    /\ UNCHANGED <<call, ver, decls, varsToSkip, run, run2, answers>>

\* createDeployment after the resolution of the deployment's variables.
FinishDeployment(c, customInputs, order, failAt) ==
    LET handed == MapsCopy(customInputs, c.flagVariablesMap)
        recorded == RecordAll(c, handed)
        sink == CopyDeploymentFiles(handed, order, failAt, c.sink)
    IN  ReturnFromCreateFiles(
            [recorded EXCEPT !.deployResolved = MapVal(customInputs),
                             !.deployRecorded = IF c.dryRun THEN MapVal(handed) ELSE NilMap,
                             !.deployInputs = MapVal(handed), !.sink = [sink EXCEPT !.err = ""]],
            sink.err)

\* createDeployment with a deployment type in the config document.
DeploymentFromConfig(c, deployConfig) ==
    LET fromConfig == validateConfigInputsToPrompts(deployConfig, c.createConfig.DeployVariables)
    IN  IF fromConfig.err # ""
        THEN {ReturnFromCreateFiles(c, fromConfig.err)}
        ELSE {FinishDeployment(c, fromConfig.ret.m, order, failAt) :
                 order \in Perms(DOMAIN MapsCopy(fromConfig.ret.m, c.flagVariablesMap)),
                 failAt \in FailChoices(c, DeploymentTemplates)}

\* createFiles: whether the deployment files are (re)created, and createDeployment
\* up to the resolution of the deployment's variables.
DeploymentStage ==
    /\ cc.pc = "deployment"
    /\ LET asked == ~cc.skipFileDetection /\ cc.hasDeploymentFiles /\ ~cc.dockerfileOnly
       IN  \E answer \in IF asked THEN {"yes", "no", Abort} ELSE {"-"} :
              LET hasDeploymentFiles == IF asked THEN answer = "no" ELSE cc.hasDeploymentFiles
                  create == IF cc.skipFileDetection THEN ~cc.dockerfileOnly
                            ELSE ~cc.dockerfileOnly /\ ~hasDeploymentFiles
                  c == [cc EXCEPT !.hasDeploymentFiles = hasDeploymentFiles]
              IN  IF answer = Abort
                  THEN cc' = ReturnFromCreateFiles(cc, ErrInterrupt)
                       /\ UNCHANGED <<decls, run, varsToSkip>>
                  ELSE IF ~create
                  THEN cc' = ReturnFromCreateFiles(c, "") /\ UNCHANGED <<decls, run, varsToSkip>>
                  ELSE IF c.createConfig.DeployType # ""
                  THEN /\ decls' \in DeployConfigs
                       /\ cc' \in DeploymentFromConfig(c, decls')
                       /\ UNCHANGED <<run, varsToSkip>>
                  ELSE \/ /\ cc' = ReturnFromCreateFiles(c, ErrInterrupt)
                          /\ UNCHANGED <<decls, run, varsToSkip>>
                       \/ /\ decls' \in DeployConfigs
                          /\ cc' = [c EXCEPT !.pc = "deploymentPrompts"]
                          /\ run' = NewRun
                          /\ varsToSkip' = DOMAIN c.flagVariablesMap
    /\ UNCHANGED <<call, ver, run2, answers>>

\* One iteration of
\* prompts.RunPromptsFromConfigWithSkips(deployConfig, maps.Keys(flagVariablesMap)).
DeploymentPrompt ==
    /\ cc.pc = "deploymentPrompts" /\ run.pc = "loop"
    /\ run' \in ResolverSteps(decls, varsToSkip, run)
    /\ UNCHANGED <<call, ver, decls, varsToSkip, run2, answers, cc>>

\* createDeployment from the return of the resolver.
DeploymentResolved ==
    /\ cc.pc = "deploymentPrompts" /\ run.pc = "done"
    /\ IF run.err # ""
       THEN cc' = ReturnFromCreateFiles(cc, run.err)
       ELSE cc' \in {FinishDeployment(cc, run.ret.m, order, failAt) :
                        order \in Perms(DOMAIN MapsCopy(run.ret.m, cc.flagVariablesMap)),
                        failAt \in FailChoices(cc, DeploymentTemplates)}
    /\ UNCHANGED <<call, ver, decls, varsToSkip, run, run2, answers>>

NextCreate ==
    \/ CreateRun
    \/ DockerfileStage
    \/ DockerfilePrompt
    \/ DockerfileResolved
    \/ DeploymentStage
    \/ DeploymentPrompt
    \/ DeploymentResolved

SpecCreate == InitCreate /\ [][NextCreate]_vars

-----------------------------------------------------------------------------
(* SpecValidate: one call of validations.Validate *)

\* The ValidateType of a declaration: the six rules Validate knows, none, a rule
\* nobody defined, and a known rule in the wrong case.
ValidateTypes == KnownRules \cup {"", "noSuchRule", "AzContainerRegistry"}

\* The values handed to Validate: empty, too short, a well-formed registry name,
\* a name the registry pattern rejects.
ValidatedValues == {"", "ca", "dflta", "My_Registry"}

InitValidate ==
    /\ ver = "v2"
    /\ decls = <<>>
    /\ varsToSkip = {}
    /\ run = NewRun
    /\ run2 = NewRun
    /\ answers = EmptyMap
    /\ cc = NoCmd
    /\ call \in { [pc |-> "call", name |-> "A",
                   variable |-> [Name |-> "A", ValidateType |-> t],
                   value |-> v, env |-> e, ret |-> Nil, effects |-> <<>>] :
                  t \in ValidateTypes, v \in ValidatedValues, e \in Envs }

CallValidate ==
    /\ call.pc = "call"
    /\ call' = [call EXCEPT
                   !.pc = "done",
                   !.ret = Validate(call.name, call.variable, call.value, call.env),
                   !.effects = ValidateEffects(call.name, call.variable, call.value, call.env)]
    /\ UNCHANGED <<ver, decls, varsToSkip, run, run2, answers, cc>>

NextValidate == CallValidate

SpecValidate == InitValidate /\ [][NextValidate]_vars

-----------------------------------------------------------------------------
(* SpecReplace: handleTemplateReplacement on one template text, twice *)

\* Number of pieces of a template text.
MaxPieces == 2

\* The placeholder of the variable name: "{{"+oldString+"}}".
Marker(name) == "{{" \o name \o "}}"

\* The pieces of a template text: the markers of A, B and C, and plain text.
Pieces == {Marker("A"), Marker("B"), Marker("C"), "text "}

TemplateTexts == UNION {[1..n -> Pieces] : n \in 1..MaxPieces}

\* What a resolved variable may hold: the user types it or passes it with
\* --variable, so it may be plain, empty, or the text of a marker.
ReplacementValues == {"va", "", Marker("A"), Marker("B"), Marker("C")}

\* The resolved sets: values for some of A and B; C is never resolved.
ResolvedSets == UNION {[S -> ReplacementValues] : S \in SUBSET {"A", "B"}}

InitReplace ==
    /\ ver = "v2"
    /\ decls = <<>>
    /\ varsToSkip = {}
    /\ run = NewRun
    /\ run2 = NewRun
    /\ answers = EmptyMap
    /\ cc = NoCmd
    /\ call \in { [pc |-> "call", content |-> t, customInputs |-> m,
                   order |-> <<>>, pieces |-> <<>>, out |-> Nil,
                   order2 |-> <<>>, pieces2 |-> <<>>, out2 |-> Nil] :
                  t \in TemplateTexts, m \in ResolvedSets }

\* handleTemplateReplacement, the range over customInputs producing the keys in
\* some order.
Replace ==
    /\ call.pc = "call"
    /\ \E order \in Perms(DOMAIN call.customInputs) :
          call' = [call EXCEPT
                     !.pc = "once",
                     !.order = order,
                     !.pieces = ReplaceEach(1, call.content, call.customInputs, order),
                     !.out = handleTemplateReplacement(call.content, call.customInputs, order)]
    /\ UNCHANGED <<ver, decls, varsToSkip, run, run2, answers, cc>>

\* handleTemplateReplacement once more on the same text and the same map.
ReplaceAgain ==
    /\ call.pc = "once"
    /\ \E order \in Perms(DOMAIN call.customInputs) :
          call' = [call EXCEPT
                     !.pc = "twice",
                     !.order2 = order,
                     !.pieces2 = ReplaceEach(1, call.content, call.customInputs, order),
                     !.out2 = handleTemplateReplacement(call.content, call.customInputs, order)]
    /\ UNCHANGED <<ver, decls, varsToSkip, run, run2, answers, cc>>

NextReplace == Replace \/ ReplaceAgain

SpecReplace == InitReplace /\ [][NextReplace]_vars

-----------------------------------------------------------------------------
(* SpecCopy: CopyDir on one template tree, once for each TemplateWriter *)

\* The template trees: the reserved file at the root and inside a directory, a
\* directory inside a directory, an empty directory, a directory that bears the
\* reserved name.
CopyTrees ==
    { << File("Dockerfile", <<"EXPOSE ", Marker("A")>>),
         File("draft.yaml", <<"variables:">>) >>,
      << Dir("charts", << File("draft.yaml", <<"variables:">>),
                          Dir("templates", << File("service.yaml", <<Marker("C")>>) >>),
                          File("values.yaml", <<Marker("A"), "text ", Marker("B")>>) >>),
         File("deployment.yaml", <<Marker("B")>>) >>,
      << Dir("base", << File("deployment.yaml", <<Marker("A")>>) >>),
         File("deployment.yaml", <<"text ">>),
         Dir("empty", <<>>) >>,
      << File("README.md", <<Marker("A")>>),
         Dir("draft.yaml", << File("notes.txt", <<"text ">>) >>) >> }

\* The *config.DraftConfig handed to CopyDir: none, or one with a name override.
CopyConfigs ==
    {[isNil |-> TRUE, nameOverrides |-> EmptyMap],
     [isNil |-> FALSE, nameOverrides |-> DeploymentNameOverrides]}

\* The resolved variables handed to CopyDir.
CopyInputs ==
    {EmptyMap,
     [k \in {"A", "B"} |-> IF k = "A" THEN "va" ELSE "vb"],
     [k \in {"A", "B"} |-> IF k = "A" THEN Marker("B") ELSE "vb"]}

NewSink == [calls |-> <<>>, err |-> ""]

InitCopy ==
    /\ ver = "v2"
    /\ decls = <<>>
    /\ varsToSkip = {}
    /\ run = NewRun
    /\ run2 = NewRun
    /\ answers = EmptyMap
    /\ cc = NoCmd
    /\ call \in { [pc |-> "call", files |-> t, config |-> c, customInputs |-> m,
                   recorder |-> NewSink, localFS |-> NewSink] :
                  t \in CopyTrees, c \in CopyConfigs, m \in CopyInputs }

\* The runs of CopyDir on the arguments of `call` with one TemplateWriter: one for
\* each order of the ranges over customInputs and each call the writer may fail.
CopyRuns ==
    {CopyDir(call.files, ".", call.config, call.customInputs, order, failAt, NewSink) :
        order \in Perms(DOMAIN call.customInputs),
        failAt \in 0..CountNodes(1, call.files)}

\* CopyDir with the dry-run recorder as templateWriter.
CopyDirToRecorder ==
    /\ call.pc = "call"
    /\ \E sink \in CopyRuns : call' = [call EXCEPT !.pc = "recorded", !.recorder = sink]
    /\ UNCHANGED <<ver, decls, varsToSkip, run, run2, answers, cc>>

\* CopyDir with the LocalFSWriter as templateWriter, on the same arguments.
CopyDirToLocalFS ==
    /\ call.pc = "recorded"
    /\ \E sink \in CopyRuns : call' = [call EXCEPT !.pc = "both", !.localFS = sink]
    /\ UNCHANGED <<ver, decls, varsToSkip, run, run2, answers, cc>>

NextCopy == CopyDirToRecorder \/ CopyDirToLocalFS

SpecCopy == InitCopy /\ [][NextCopy]_vars

-----------------------------------------------------------------------------
(* SpecFileMap: CopyDirToFileMap and CopyDir on one template tree *)

\* The loop of CopyDirToFileMap from the i-th entry on, fileMap being the map the
\* function holds: for a directory the map the recursive call returns is
\* assigned to fileMap.
RECURSIVE CopyDirToFileMapFrom(_, _, _, _, _, _, _)
CopyDirToFileMapFrom(i, files, dest, config, customInputs, order, fileMap) ==
    IF i > Len(files) THEN fileMap
    ELSE LET f == files[i]
             destPath == dest \o "/" \o f.name
         IN  IF f.name = "draft.yaml"
             THEN CopyDirToFileMapFrom(i + 1, files, dest, config, customInputs, order, fileMap)
             ELSE IF f.isDir
             THEN CopyDirToFileMapFrom(i + 1, files, dest, config, customInputs, order,
                      CopyDirToFileMapFrom(1, f.files, destPath, config, customInputs,
                                           order, EmptyMap))
             ELSE LET fileString == handleTemplateReplacement(f.content, customInputs, order)
                      fileName == checkNameOverrides(f.name, config)
                  IN  CopyDirToFileMapFrom(i + 1, files, dest, config, customInputs, order,
                          Put(fileMap, dest \o "/" \o fileName, fileString))

CopyDirToFileMap(files, dest, config, customInputs, order) ==
    CopyDirToFileMapFrom(1, files, dest, config, customInputs, order, EmptyMap)

\* The template trees of SpecCopy and a chart as `helm create` lays it out.
FileMapTrees ==
    CopyTrees \cup
    { << Dir("charts", << File("Chart.yaml", <<"name: ", Marker("A")>>),
                          Dir("templates", << File("service.yaml", <<Marker("B")>>) >>),
                          File("values.yaml", <<"text ">>) >>),
         File("draft.yaml", <<"variables:">>) >> }

InitFileMap ==
    /\ ver = "v2"
    /\ decls = <<>>
    /\ varsToSkip = {}
    /\ run = NewRun
    /\ run2 = NewRun
    /\ answers = EmptyMap
    /\ cc = NoCmd
    /\ call \in { [pc |-> "call", files |-> t, config |-> c, customInputs |-> m,
                   order |-> <<>>, fileMap |-> EmptyMap, sink |-> NewSink] :
                  t \in FileMapTrees, c \in CopyConfigs, m \in CopyInputs }

\* CopyDirToFileMap(fileSys, src, dest, config, customInputs); the ranges over
\* customInputs produce the keys in some order.
CallCopyDirToFileMap ==
    /\ call.pc = "call"
    /\ \E order \in Perms(DOMAIN call.customInputs) :
          call' = [call EXCEPT !.pc = "mapped", !.order = order,
                               !.fileMap = CopyDirToFileMap(call.files, ".", call.config,
                                                            call.customInputs, order)]
    /\ UNCHANGED <<ver, decls, varsToSkip, run, run2, answers, cc>>

\* CopyDir on the same arguments, the ranges producing the same order.
CallCopyDir ==
    /\ call.pc = "mapped"
    /\ \E failAt \in 0..CountNodes(1, call.files) :
          call' = [call EXCEPT !.pc = "copied",
                               !.sink = CopyDir(call.files, ".", call.config, call.customInputs,
                                                call.order, failAt, NewSink)]
    /\ UNCHANGED <<ver, decls, varsToSkip, run, run2, answers, cc>>

NextFileMap == CallCopyDirToFileMap \/ CallCopyDir

SpecFileMap == InitFileMap /\ [][NextFileMap]_vars

-----------------------------------------------------------------------------
(* pkg/workflows: the workflow variables, in the two revisions of the package *)

\* The fields of WorkflowEnv, HelmEnv, KustomizeEnv and ManifestEnv.
CommonFields ==
    {"AcrResourceGroup", "AzureContainerRegistry", "BranchName", "BuildContextPath",
     "ClusterName", "ClusterResourceGroup", "ContainerName"}

DeployFields ==
    {"ChartPath", "ChartOverridePath", "ChartOverrides", "KustomizePath",
     "DeploymentManifestPath"}

\* The revision with PrivateCluster ("w1") and the one without ("w2").
WorkflowFields(rev) ==
    CommonFields \cup DeployFields \cup (IF rev = "w1" THEN {"PrivateCluster"} ELSE {})

EnvVarName(field) ==
    CASE field = "AcrResourceGroup" -> "ACR_RESOURCE_GROUP"
      [] field = "AzureContainerRegistry" -> "ACR_NAME"
      [] field = "BranchName" -> "BRANCH_NAME"
      [] field = "BuildContextPath" -> "BUILD_CONTEXT_PATH"
      [] field = "ClusterName" -> "CLUSTER_NAME"
      [] field = "ClusterResourceGroup" -> "CLUSTER_RESOURCE_GROUP"
      [] field = "ContainerName" -> "CONTAINER_NAME"
      [] field = "PrivateCluster" -> "PRIVATE_CLUSTER"
      [] field = "ChartPath" -> "CHART_PATH"
      [] field = "ChartOverridePath" -> "CHART_OVERRIDE_PATH"
      [] field = "ChartOverrides" -> "CHART_OVERRIDES"
      [] field = "KustomizePath" -> "KUSTOMIZE_PATH"
      [] field = "DeploymentManifestPath" -> "DEPLOYMENT_MANIFEST_PATH"

\* The Value FillWorkflowEnv gives a field that has none.
FillValue(rev, field) ==
    CASE field = "BuildContextPath" -> "."
      [] field = "ChartPath" -> "./charts"
      [] field = "ChartOverridePath" -> "./charts/production.yaml"
      [] field = "ChartOverrides" -> IF rev = "w1" THEN "replicas:2" ELSE ""
      [] field = "KustomizePath" -> "./overlays/production"
      [] field = "DeploymentManifestPath" -> "./manifests"
      [] OTHER -> ""

\* A WorkflowEnv as the command holds it before FillWorkflowEnv: zero values but
\* for the Values the flags have set.
ZeroWorkflowEnv(rev, flagValues) ==
    [field \in WorkflowFields(rev) |->
        [Name |-> "", DisablePrompt |-> FALSE, Value |-> Get(flagValues, field), Type |-> ""]]

FillWorkflowEnv(rev, we) ==
    [field \in WorkflowFields(rev) |->
        [Name |-> EnvVarName(field),
         DisablePrompt |-> field \in DeployFields,
         Value |-> IF we[field].Value = "" THEN FillValue(rev, field) ELSE we[field].Value,
         Type |-> IF field = "PrivateCluster" THEN "bool" ELSE we[field].Type]]

\* The fields checkForVal is called on.
BuildMap(we) ==
    LET fields == {f \in CommonFields \cup DeployFields : we[f].Value # ""}
    IN  [n \in {we[f].Name : f \in fields} |->
            we[CHOOSE f \in fields : we[f].Name = n].Value]

-----------------------------------------------------------------------------
(* pkg/prompts: RunPromptsForDeployTypeWithSkipsIO *)

\* The closure skipOrPrompt on one EnvVar; r holds inputs, the prompts shown so
\* far and the error that ended the function, if any.
skipOrPrompt(r, skipMap, envVar, answer) ==
    IF r.err # "" THEN r
    ELSE IF envVar.Name \in DOMAIN skipMap THEN r
    ELSE IF envVar.DisablePrompt
    THEN IF envVar.Value = ""
         THEN [r EXCEPT !.err = ErrNoDefault(envVar.Name)]
         ELSE [r EXCEPT !.inputs = Put(@, envVar.Name, envVar.Value)]
    ELSE LET p == IF envVar.Type = "bool" THEN RunBoolPrompt(answer)
                  ELSE RunDefaultableStringPrompt(envVar.Value, Nil, answer)
             shown == [r EXCEPT !.prompts = Append(@, envVar.Name)]
         IN  IF p.err # "" THEN [shown EXCEPT !.err = p.err]
             ELSE [shown EXCEPT !.inputs = Put(@, envVar.Name, p.input)]

\* The fields skipOrPrompt is called on, in order.
PromptedFields(deployType) ==
    <<"AcrResourceGroup", "AcrResourceGroup", "BranchName", "BuildContextPath",
      "ClusterName", "ClusterResourceGroup", "ContainerName">>
    \o (CASE deployType = "helm" -> <<"ChartPath", "ChartOverridePath", "ChartOverrides">>
          [] deployType = "kustomize" -> <<"KustomizePath">>
          [] deployType = "manifests" -> <<"DeploymentManifestPath">>
          [] OTHER -> <<>>)

RECURSIVE RunPromptsForDeployTypeFrom(_, _, _, _, _, _)
RunPromptsForDeployTypeFrom(i, fields, workflowEnv, skipMap, script, r) ==
    IF i > Len(fields) THEN r
    ELSE RunPromptsForDeployTypeFrom(i + 1, fields, workflowEnv, skipMap, script,
             skipOrPrompt(r, skipMap, workflowEnv[fields[i]], script[i]))

\* script[i] is what the user does if the i-th call of skipOrPrompt prompts.
RunPromptsForDeployTypeWithSkipsIO(workflowEnv, deployType, varsToSkipList, script) ==
    LET r == RunPromptsForDeployTypeFrom(1, PromptedFields(deployType), workflowEnv,
                 SkipMap(varsToSkipList), script,
                 [inputs |-> EmptyMap, prompts |-> <<>>, err |-> ""])
    IN  [inputs |-> r.inputs, prompts |-> r.prompts, err |-> r.err,
         ret |-> IF r.err # "" THEN NilMap ELSE MapVal(r.inputs)]

\* What the user types at the i-th call, if asked.
TypedAt == <<"u1", "u2", "u3", "u4", "u5", "u6", "u7", "u8", "u9", "u10">>

\* The user types at every prompt, or presses Enter at every prompt, and may
\* interrupt one.
PromptScripts ==
    {[i \in 1..Len(TypedAt) |->
         IF i = abortAt THEN Abort ELSE IF enter THEN "" ELSE TypedAt[i]] :
       enter \in BOOLEAN, abortAt \in {0, 2, 5}}

DeployTypes == {"helm", "kustomize", "manifests"}

-----------------------------------------------------------------------------
(* SpecFill: FillWorkflowEnv, then RunPromptsForDeployTypeWithSkipsIO *)

\* The Values the flags of the command have set before FillWorkflowEnv.
FlagValueChoices ==
    {EmptyMap,
     [f \in {"ClusterName", "BuildContextPath"} |->
         IF f = "ClusterName" THEN "fc" ELSE "./src"],
     [f \in {"AzureContainerRegistry", "ChartPath", "ChartOverrides"} |->
         IF f = "AzureContainerRegistry" THEN "fr"
         ELSE IF f = "ChartPath" THEN "./mychart" ELSE "replicas:3"]}

SkipChoices ==
    {{}, {"ACR_NAME"}, {"ACR_RESOURCE_GROUP", "CHART_OVERRIDES"},
     {EnvVarName(f) : f \in CommonFields}}

InitFill ==
    /\ ver = "v2"
    /\ decls = <<>>
    /\ varsToSkip = {}
    /\ run = NewRun
    /\ run2 = NewRun
    /\ answers = EmptyMap
    /\ cc = NoCmd
    /\ call \in { [pc |-> "call", rev |-> rev, deployType |-> t, varsToSkip |-> skip,
                   flagValues |-> fv, workflowEnv |-> ZeroWorkflowEnv(rev, fv),
                   inputs |-> EmptyMap, prompts |-> <<>>, err |-> "", ret |-> NilMap] :
                  rev \in {"w1", "w2"}, t \in DeployTypes \cup {"compose"},
                  skip \in SkipChoices, fv \in FlagValueChoices }

\* gwCmd.workflowEnv.FillWorkflowEnv().
Fill ==
    /\ call.pc = "call"
    /\ call' = [call EXCEPT !.pc = "filled",
                            !.workflowEnv = FillWorkflowEnv(call.rev, call.workflowEnv)]
    /\ UNCHANGED <<ver, decls, varsToSkip, run, run2, answers, cc>>

\* prompts.RunPromptsForDeployTypeWithSkipsIO(workflowEnv, deployType, varsToSkip, ...).
RunPromptsForDeployType ==
    /\ call.pc = "filled"
    /\ \E script \in PromptScripts :
          LET r == RunPromptsForDeployTypeWithSkipsIO(call.workflowEnv, call.deployType,
                                                      call.varsToSkip, script)
          IN  call' = [call EXCEPT !.pc = "prompted", !.inputs = r.inputs,
                                   !.prompts = r.prompts, !.err = r.err, !.ret = r.ret]
    /\ UNCHANGED <<ver, decls, varsToSkip, run, run2, answers, cc>>

NextFill == Fill \/ RunPromptsForDeployType

SpecFill == InitFill /\ [][NextFill]_vars

-----------------------------------------------------------------------------
(* SpecPrompt: prompts.RunDefaultableStringPrompt on one question *)

\* The defaultValue arguments.
PromptSeeds == {"", "dflta", "true"}

\* The validate arguments: none, or one of the package's validators, or one of
\* the caller's.
PromptValidators == {Nil, "NoBlankStringValidator", "AllowAllStringValidator", "callerValidator"}

\* What the user does at the prompt.
PromptAnswers == {"", "ua", "dflta", "{{A}}", " ", Abort}

InitPrompt ==
    /\ ver = "v2"
    /\ decls = <<>>
    /\ varsToSkip = {}
    /\ run = NewRun
    /\ run2 = NewRun
    /\ answers = EmptyMap
    /\ cc = NoCmd
    /\ call \in { [pc |-> "call", defaultValue |-> s, validate |-> v, answer |-> a,
                   input |-> Nil, err |-> Nil] :
                  s \in PromptSeeds, v \in PromptValidators, a \in PromptAnswers }

\* RunDefaultableStringPrompt(customPrompt, defaultValue, validate, Stdin, Stdout).
AskString ==
    /\ call.pc = "call"
    /\ LET r == RunDefaultableStringPrompt(call.defaultValue, call.validate, call.answer)
       IN  call' = [call EXCEPT !.pc = "returned", !.input = r.input, !.err = r.err]
    /\ UNCHANGED <<ver, decls, varsToSkip, run, run2, answers, cc>>

NextPrompt == AskString

SpecPrompt == InitPrompt /\ [][NextPrompt]_vars

-----------------------------------------------------------------------------
(* SpecEnsure: osutil.EnsureDirectory on one path of the file system, twice *)

\* Number of components of the longest path.
MaxDepth == 3

\* The file system along one path p1/p2/.../pMaxDepth: what the prefix of each
\* length is. Nothing exists below what is absent or a file.
FileSystems ==
    {fs \in [1..MaxDepth -> {"absent", "dir", "file"}] :
        \A i \in 2..MaxDepth : fs[i] # "absent" => fs[i - 1] = "dir"}

\* The path of d components.
PathOf(d) == Join([i \in 1..d |-> "/p"])

\* os.MkdirAll on the prefix of length d: nothing to do for a directory, an error
\* for a file, else the parent first and then os.Mkdir, which the system refuses
\* for the prefix of length failAt. What was made before a refusal stays.
RECURSIVE MkdirAll(_, _, _)
MkdirAll(fs, d, failAt) ==
    IF fs[d] = "dir" THEN [fs |-> fs, err |-> ""]
    ELSE IF fs[d] = "file" THEN [fs |-> fs, err |-> "mkdir " \o PathOf(d) \o ": not a directory"]
    ELSE LET parent == IF d = 1 THEN [fs |-> fs, err |-> ""] ELSE MkdirAll(fs, d - 1, failAt)
         IN  IF parent.err # "" THEN parent
             ELSE IF failAt = d
             THEN [fs |-> parent.fs, err |-> "mkdir " \o PathOf(d) \o ": permission denied"]
             ELSE [fs |-> [parent.fs EXCEPT ![d] = "dir"], err |-> ""]

\* EnsureDirectory with os.Mkdir in place of the os.Stat test and os.MkdirAll.
EnsureDirectoryMkdirOnly(fs, d, failAt) ==
    IF fs[d] # "absent"
    THEN [fs |-> fs, err |-> "could not create " \o PathOf(d) \o ": file exists"]
    ELSE LET made == MkdirAll(fs, d, failAt)
         IN  [fs |-> made.fs,
              err |-> IF made.err # "" THEN "could not create " \o PathOf(d) \o ": " \o made.err
                      ELSE ""]

\* EnsureDirectory(dir): os.Stat fails for a path that does not exist.
EnsureDirectory(fs, d, failAt) ==
    IF fs[d] = "absent"
    THEN LET made == MkdirAll(fs, d, failAt)
         IN  [fs |-> made.fs,
              err |-> IF made.err # "" THEN "could not create " \o PathOf(d) \o ": " \o made.err
                      ELSE ""]
    ELSE IF fs[d] # "dir"
    THEN [fs |-> fs, err |-> PathOf(d) \o " must be a directory"]
    ELSE [fs |-> fs, err |-> ""]

InitEnsure ==
    /\ ver = "v2"
    /\ decls = <<>>
    /\ varsToSkip = {}
    /\ run = NewRun
    /\ run2 = NewRun
    /\ answers = EmptyMap
    /\ cc = NoCmd
    /\ call \in { [pc |-> "call", dir |-> d, failAt |-> f, before |-> fs,
                   fs |-> fs, err |-> Nil, fs2 |-> fs, err2 |-> Nil] :
                  d \in 1..MaxDepth, f \in 0..MaxDepth, fs \in FileSystems }

\* LocalFSWriter.EnsureDirectory(path).
EnsureOnce ==
    /\ call.pc = "call"
    /\ LET r == EnsureDirectory(call.fs, call.dir, call.failAt)
       IN  call' = [call EXCEPT !.pc = "once", !.fs = r.fs, !.err = r.err, !.fs2 = r.fs]
    /\ UNCHANGED <<ver, decls, varsToSkip, run, run2, answers, cc>>

\* LocalFSWriter.EnsureDirectory(path) again.
EnsureTwice ==
    /\ call.pc = "once"
    /\ LET r == EnsureDirectory(call.fs, call.dir, call.failAt)
       IN  call' = [call EXCEPT !.pc = "twice", !.fs2 = r.fs, !.err2 = r.err]
    /\ UNCHANGED <<ver, decls, varsToSkip, run, run2, answers, cc>>

NextEnsure == EnsureOnce \/ EnsureTwice

SpecEnsure == InitEnsure /\ [][NextEnsure]_vars

-----------------------------------------------------------------------------
(* cmd/generate-workflow.go: one invocation of `draft generate-workflow` *)

ErrUnsupportedDeployType == "unsupported deployment type"

\* The loop of createFlagMap over the --variable arguments.
RECURSIVE createFlagMapFrom(_, _, _)
createFlagMapFrom(i, flagVariables, flagValuesMap) ==
    IF i > Len(flagVariables) THEN [m |-> MapVal(flagValuesMap), err |-> ""]
    ELSE LET cut == StringsCut(flagVariables[i], "=")
         IN  IF ~cut.found
             THEN [m |-> NilMap,
                   err |-> "invalid variable format: " \o Join(flagVariables[i])]
             ELSE createFlagMapFrom(i + 1, flagVariables,
                                    Put(flagValuesMap, cut.before, cut.after))

\* nFlag is cmd.Flags().NFlag(), the number of flags the command line sets.
createFlagMap(nFlag, workflowEnv, flagVariables) ==
    createFlagMapFrom(1, flagVariables, IF nFlag # 0 THEN BuildMap(workflowEnv) ELSE EmptyMap)

\* selection is what the user picks when asked, or Abort.
promptDeployType(deployType, selection) ==
    IF deployType = ""
    THEN IF selection = Abort THEN [deployType |-> "", err |-> ErrInterrupt]
         ELSE [deployType |-> selection, err |-> ""]
    ELSE [deployType |-> deployType, err |-> ""]

\* The embedded workflow template of a deploy type, in pieces.
WorkflowTemplate(deployType) ==
    <<"env: ", Marker("ACR_RESOURCE_GROUP"), Marker("ACR_NAME"), Marker("BRANCH_NAME"),
      Marker("BUILD_CONTEXT_PATH"), Marker("CLUSTER_NAME"), Marker("CLUSTER_RESOURCE_GROUP"),
      Marker("CONTAINER_NAME")>>
    \o (CASE deployType = "helm" ->
               <<Marker("CHART_PATH"), Marker("CHART_OVERRIDE_PATH"), Marker("CHART_OVERRIDES")>>
          [] deployType = "kustomize" -> <<Marker("KUSTOMIZE_PATH")>>
          [] OTHER -> <<Marker("DEPLOYMENT_MANIFEST_PATH")>>)

\* osutil.ReplaceTemplateVariables on a text in pieces, for values that hold no
\* marker.
ReplaceTemplateVariables(pieces, envArgsMap) ==
    [i \in 1..Len(pieces) |->
        IF \E k \in DOMAIN envArgsMap : pieces[i] = Marker(k)
        THEN envArgsMap[CHOOSE k \in DOMAIN envArgsMap : pieces[i] = Marker(k)]
        ELSE pieces[i]]

\* osutil.CheckAllVariablesSubstituted.
CheckAllVariablesSubstituted(pieces) ==
    IF \E i \in 1..Len(pieces) :
          \E f \in CommonFields \cup DeployFields : pieces[i] = Marker(EnvVarName(f))
    THEN "variable not substituted"
    ELSE ""

GenerateWorkflowBytes(deployType, envArgsMap) ==
    IF deployType \notin DeployTypes
    THEN [workflowBytes |-> Nil, err |-> ErrUnsupportedDeployType]
    ELSE LET workflowBytes == ReplaceTemplateVariables(WorkflowTemplate(deployType), envArgsMap)
         IN  IF CheckAllVariablesSubstituted(workflowBytes) # ""
             THEN [workflowBytes |-> Nil,
                   err |-> "check all variables substituted: "
                              \o CheckAllVariablesSubstituted(workflowBytes)]
             ELSE [workflowBytes |-> Join(workflowBytes), err |-> ""]

\* os.WriteFile on the path of d components: it cannot write over a directory
\* nor into a directory that does not exist.
OsWriteFile(disk, d, data) ==
    IF disk.fs[d] = "dir"
    THEN [disk |-> disk, err |-> "open " \o PathOf(d) \o ": is a directory"]
    ELSE IF d > 1 /\ disk.fs[d - 1] # "dir"
    THEN [disk |-> disk, err |-> "open " \o PathOf(d) \o ": no such file or directory"]
    ELSE [disk |-> [fs |-> [disk.fs EXCEPT ![d] = "file"], content |-> data], err |-> ""]

\* writeFile with the LocalFSWriter; destPath, the workflow file of the deploy
\* type, is the path of MaxDepth components, and disk.content is what the file
\* at destPath holds.
writeFile(deployType, workflowBytes, disk, failAt) ==
    IF deployType \notin DeployTypes
    THEN [disk |-> disk, err |-> ErrUnsupportedDeployType]
    ELSE LET ensured == EnsureDirectory(disk.fs, MaxDepth, failAt)
             ensuredDisk == [disk EXCEPT !.fs = ensured.fs]
         IN  IF ensured.err # ""
             THEN [disk |-> ensuredDisk, err |-> "ensure directory: " \o ensured.err]
             ELSE LET written == OsWriteFile(ensuredDisk, MaxDepth, workflowBytes)
                  IN  IF written.err # ""
                      THEN [disk |-> written.disk, err |-> "write file: " \o written.err]
                      ELSE [disk |-> written.disk, err |-> ""]

\* The Values the flags of generate-workflow set.
WorkflowFlagChoices ==
    {EmptyMap,
     [f \in {"BranchName"} |-> "main"],
     [f \in CommonFields |->
         CASE f = "AcrResourceGroup" -> "fg"
           [] f = "AzureContainerRegistry" -> "fr"
           [] f = "BranchName" -> "main"
           [] f = "BuildContextPath" -> "./src"
           [] f = "ClusterName" -> "fc"
           [] f = "ClusterResourceGroup" -> "fl"
           [] OTHER -> "fn"]}

\* The --variable arguments.
WorkflowVariableChoices ==
    {<<>>, << <<"CLUSTER_NAME", "=", "vc">> >>, << <<"CLUSTER_NAME", "vc">> >>}

InitWorkflow ==
    /\ ver = "v2"
    /\ decls = <<>>
    /\ varsToSkip = {}
    /\ run = NewRun
    /\ run2 = NewRun
    /\ answers = EmptyMap
    /\ cc = NoCmd
    /\ call \in { [pc |-> "call", flagValues |-> fv, flagVariables |-> vs,
                   deployType |-> t, failAt |-> failAt,
                   disk |-> [fs |-> fs, content |-> Nil],
                   workflowEnv |-> ZeroWorkflowEnv("w1", fv),
                   flagValuesMap |-> NilMap, prompted |-> NilMap, customInputs |-> NilMap,
                   envArgsMap |-> NilMap, workflowBytes |-> Nil, writeErr |-> Nil,
                   success |-> FALSE, err |-> Nil] :
                  fv \in WorkflowFlagChoices, vs \in WorkflowVariableChoices,
                  t \in DeployTypes \cup {"", "compose"},
                  failAt \in {0, MaxDepth}, fs \in FileSystems }

\* `return err` of RunE.
WorkflowReturn(c, e) == [c EXCEPT !.pc = "done", !.err = e]

\* RunE up to the prompts for the variables: FillWorkflowEnv, createFlagMap,
\* promptDeployType.
CreateFlagMapAndDeployType ==
    /\ call.pc = "call"
    /\ \E selection \in DeployTypes \cup {Abort} :
          LET workflowEnv == FillWorkflowEnv("w1", call.workflowEnv)
              nFlag == Cardinality(DOMAIN call.flagValues) + Len(call.flagVariables)
                          + (IF call.deployType # "" THEN 1 ELSE 0)
              flags == createFlagMap(nFlag, workflowEnv, call.flagVariables)
              picked == promptDeployType(call.deployType, selection)
              filled == [call EXCEPT !.workflowEnv = workflowEnv]
          IN  call' = IF flags.err # ""
                      THEN WorkflowReturn(filled, "create flag map: " \o flags.err)
                      ELSE IF picked.err # ""
                      THEN WorkflowReturn([filled EXCEPT !.flagValuesMap = flags.m],
                                          "prompt deploy type: " \o picked.err)
                      ELSE [filled EXCEPT !.pc = "flags", !.flagValuesMap = flags.m,
                                          !.deployType = picked.deployType]
    /\ UNCHANGED <<ver, decls, varsToSkip, run, run2, answers, cc>>

\* RunPromptsForDeployTypeWithSkipsIO with the keys of flagValuesMap as skip list,
\* and maps.Copy(customInputs, flagValuesMap).
ResolveWorkflowVariables ==
    /\ call.pc = "flags"
    /\ \E script \in PromptScripts :
          LET r == RunPromptsForDeployTypeWithSkipsIO(call.workflowEnv, call.deployType,
                       DOMAIN call.flagValuesMap.m, script)
          IN  call' = IF r.err # "" THEN WorkflowReturn(call, r.err)
                      ELSE [call EXCEPT !.pc = "resolved", !.prompted = r.ret,
                                        !.customInputs =
                                            MapVal(MapsCopy(r.ret.m, call.flagValuesMap.m))]
    /\ UNCHANGED <<ver, decls, varsToSkip, run, run2, answers, cc>>

\* The rest of RunE: GenerateWorkflowBytes, writeFile, the log line, the return.
GenerateAndWrite ==
    /\ call.pc = "resolved"
    /\ LET envArgsMap == call.flagValuesMap
           generated == GenerateWorkflowBytes(call.deployType, envArgsMap.m)
           written == writeFile(call.deployType, generated.workflowBytes, call.disk,
                                call.failAt)
       IN  call' = IF generated.err # ""
                   THEN WorkflowReturn([call EXCEPT !.envArgsMap = envArgsMap],
                                       "generate workflow bytes: " \o generated.err)
                   ELSE [call EXCEPT !.pc = "done", !.envArgsMap = envArgsMap,
                                     !.workflowBytes = generated.workflowBytes,
                                     !.disk = written.disk, !.writeErr = written.err,
                                     !.success = TRUE, !.err = ""]
    /\ UNCHANGED <<ver, decls, varsToSkip, run, run2, answers, cc>>

NextWorkflow == CreateFlagMapAndDeployType \/ ResolveWorkflowVariables \/ GenerateAndWrite

SpecWorkflow == InitWorkflow /\ [][NextWorkflow]_vars

-----------------------------------------------------------------------------
(* Properties of the resolver *)

\* The default of section 4.2: the referenced variable's current value when there
\* is one, else the literal default.
ExpectedDefault(d, inputs) ==
    IF d.ReferenceVar # "" /\ Get(inputs, d.ReferenceVar) # ""
    THEN Get(inputs, d.ReferenceVar)
    ELSE d.Value

\* The non-skipped declarations whose prompt is disabled.
NonInteractive == {n \in DeclNames(decls) \ varsToSkip : DeclOf(decls, n).IsPromptDisabled}

PromptedNames == {run.prompts[i].name : i \in 1..Len(run.prompts)}

Succeeded == run.pc = "done" /\ run.err = ""

\* C1: a successful run returns a map with no key of varsToSkip, and the prompt
\* dispatcher is never invoked for a name of varsToSkip.
C1_SkipIsAbsolute ==
    /\ PromptedNames \cap varsToSkip = {}
    /\ Succeeded => (DOMAIN run.ret.m) \cap varsToSkip = {}

\* C3: when the iteration reaches a non-skipped declaration whose prompt is disabled
\* and whose computed default is empty, the run ends with the error and a nil map;
\* and no run ever ends with an error and a map.
C3_NonInteractiveFailure ==
    [][ /\ \A n \in run'.visited \ run.visited :
              (n \in NonInteractive /\ ExpectedDefault(DeclOf(decls, n), run.inputs) = "")
                  => (run'.pc = "done" /\ run'.err = ErrNoDefault(n) /\ run'.ret = NilMap)
        /\ (run'.err # "" => (run'.pc = "done" /\ run'.ret = NilMap))
        /\ (~run'.ret.isNil => run'.err = "") ]_vars

\* C3 witness: the run had resolved a variable, then failed on a later one, and
\* returned nil.
C3_Witness ==
    /\ run.pc = "done" /\ run.ret = NilMap
    /\ \E n \in NonInteractive : run.err = ErrNoDefault(n)
    /\ DOMAIN run.inputs # {}

\* C5: the iteration over a non-skipped declaration whose prompt is disabled calls
\* no prompt and, unless it fails, assigns the computed default of that moment; the
\* value then stays as it is up to and in the returned map; the dispatcher's log
\* never holds such a name.
C5_PromptDisabledUsesDefault ==
    [][ /\ \A n \in (run'.visited \ run.visited) \cap NonInteractive :
              /\ run'.prompts = run.prompts
              /\ run'.err = "" =>
                    Get(run'.inputs, n) = ExpectedDefault(DeclOf(decls, n), run.inputs)
        /\ \A n \in (DOMAIN run.inputs) \cap NonInteractive :
              /\ run'.pc = "loop" => Get(run'.inputs, n) = run.inputs[n]
              /\ (run'.pc = "done" /\ run'.err = "") => Get(run'.ret.m, n) = run.inputs[n]
        /\ {run'.prompts[i].name : i \in 1..Len(run'.prompts)} \cap NonInteractive = {} ]_vars

\* C5 witness: a successful run in which a variable with a disabled prompt took the
\* value of the variable it references.
C5_Witness ==
    /\ Succeeded
    /\ \E n \in NonInteractive :
          LET d == DeclOf(decls, n)
          IN  /\ d.ReferenceVar # ""
              /\ Get(run.ret.m, d.ReferenceVar) # ""
              /\ run.ret.m[n] = run.ret.m[d.ReferenceVar]
              /\ run.ret.m[n] # d.Value

\* The default the running revision computes for declaration d from `inputs`.
ComputedDefault(d, inputs) ==
    IF ver = "v1" THEN GetVariableDefaultValue(d.Name, VariableDefaults(decls), inputs)
    ELSE GetVariableDefaultValueV2(d.Name, d, inputs)

\* C6: for a declaration B that references A, the computed default is A's resolved
\* value when that is non-empty and B's literal default otherwise; it is the seed
\* of B's string prompt and the value B takes when its prompt is disabled.
C6_ReferenceFallback ==
    [][ /\ \A i \in 1..Len(decls) :
              decls[i].ReferenceVar # "" =>
                  ComputedDefault(decls[i], run.inputs) =
                      (IF Get(run.inputs, decls[i].ReferenceVar) # ""
                       THEN run.inputs[decls[i].ReferenceVar] ELSE decls[i].Value)
        /\ \A n \in (run'.visited \ run.visited) \ varsToSkip :
              LET d == DeclOf(decls, n)
                  expected == IF Get(run.inputs, d.ReferenceVar) # ""
                              THEN run.inputs[d.ReferenceVar] ELSE d.Value
              IN  d.ReferenceVar # "" =>
                    /\ (d.IsPromptDisabled /\ run'.err = "") => Get(run'.inputs, n) = expected
                    /\ (~d.IsPromptDisabled /\ d.Type = "string") =>
                          /\ Len(run'.prompts) = Len(run.prompts) + 1
                          /\ run'.prompts[Len(run'.prompts)].name = n
                          /\ run'.prompts[Len(run'.prompts)].seed = expected ]_vars

\* C6 witness: B has no literal default, references A, and was prompted with A's
\* resolved value as its seed.
C6_Witness ==
    \E i \in 1..Len(run.prompts) :
        LET d == DeclOf(decls, run.prompts[i].name)
        IN  /\ d.ReferenceVar # "" /\ d.Value = ""
            /\ run.prompts[i].seed # ""
            /\ run.prompts[i].seed = Get(run.inputs, d.ReferenceVar)

\* The step that carries out the pass after the loop of revision v1 and returns.
SecondPassStep == ver = "v1" /\ run.pc = "loop" /\ run'.pc = "done" /\ run'.err = ""

C9_ValidationFailureIsFatal ==
    \A i \in 1..Len(run.validations) :
        run.validations[i].err # "" =>
            (run.pc = "done" /\ run.err = run.validations[i].err /\ run.ret = NilMap)

\* C10: in a successful run the validator was called with the resolved value of
\* every non-skipped declaration whose ValidateType is a known rule, also when the
\* value is the default of a variable with a disabled prompt.
C10_ValidationCoversEveryPath ==
    Succeeded =>
        \A n \in DeclNames(decls) \ varsToSkip :
            DeclOf(decls, n).ValidateType \in KnownRules =>
                \E i \in 1..Len(run.validations) :
                    /\ run.validations[i].name = n
                    /\ run.validations[i].value = Get(run.ret.m, n)

\* C8: two runs on the same declarations, skip set and answers return the same map
\* or the same error.
C8_Deterministic ==
    (run.pc = "done" /\ run2.pc = "done") => (run.ret = run2.ret /\ run.err = run2.err)

-----------------------------------------------------------------------------
(* Properties of the create command *)

\* The deployment variables of the config document that a --variable argument
\* names too.
SuppliedTwice ==
    {i \in 1..Len(cc.createConfig.DeployVariables) :
        cc.createConfig.DeployVariables[i].Name \in DOMAIN cc.flagVariablesMap}

\* createDeployment took the config document's path and has handed its map to
\* CopyDeploymentFiles.
HandedFromConfig ==
    cc.pc = "done" /\ ~cc.deployInputs.isNil /\ cc.createConfig.DeployType # ""

\* C2 as stated: for a variable supplied by the config document's deploy variables
\* and by a --variable argument, the value handed to materialization is the
\* config document's.
C2_ConfigDocumentValueWins ==
    HandedFromConfig =>
        \A i \in SuppliedTwice :
            Get(cc.deployInputs.m, cc.createConfig.DeployVariables[i].Name)
                = cc.createConfig.DeployVariables[i].Value

\* C2 amended: for such a variable the value handed to materialization is the
\* value of the --variable argument (the last one of that name).
C2_CommandLineValueWins ==
    HandedFromConfig =>
        \A i \in SuppliedTwice :
            LET name == cc.createConfig.DeployVariables[i].Name
            IN  /\ name \in DOMAIN cc.deployInputs.m
                /\ cc.deployInputs.m[name] = cc.flagVariablesMap[name]

\* C2 witness: the config document says A = ca, the command line A = fb, and the
\* deployment files were written from a map with A = fb.
C2_Witness ==
    /\ HandedFromConfig
    /\ \E i \in SuppliedTwice :
          LET name == cc.createConfig.DeployVariables[i].Name
          IN  /\ cc.createConfig.DeployVariables[i].Value # ""
              /\ cc.flagVariablesMap[name] # ""
              /\ cc.flagVariablesMap[name] # cc.createConfig.DeployVariables[i].Value
              /\ cc.deployInputs.m[name] = cc.flagVariablesMap[name]
    /\ \E k \in 1..Len(cc.sink.calls) :
          cc.sink.calls[k].op = "WriteFile" /\ cc.sink.calls[k].path = "./charts/values.yaml"

\* C4: when a create invocation ends with the resolver's error for a variable with
\* a disabled prompt and no default, no EnsureDirectory or WriteFile call has been
\* made on the output sink.
C4_NoFileTouchedOnResolutionError ==
    (cc.pc = "done" /\ \E n \in DeclNames(decls) \cup DeclNames(cc.langConfig) :
                           cc.err = ErrNoDefault(n))
        => cc.sink.calls = <<>>

-----------------------------------------------------------------------------
(* Properties of validations.Validate *)

\* C11  Permissive unknown-rule policy: whenever the declaration's ValidateType is
\* empty or is none of the rule identifiers Validate knows, Validate returns no
\* error whatever the value, calls no validator and does nothing but write its
\* log line.
C11_UnknownRuleAccepted ==
    (call.pc = "done" /\ call.variable.ValidateType \notin KnownRules)
        => /\ call.ret = ""
           /\ call.effects = <<"log.Debugf">>

\* Validate has returned for a value the registry rule would reject, on a
\* declaration whose rule is unknown.
C11_Witness ==
    /\ call.pc = "done"
    /\ call.variable.ValidateType = "noSuchRule"
    /\ call.value = "My_Registry"
    /\ validateAzureContainerRegistry(call.value, call.env) # ""
    /\ call.ret = ""

-----------------------------------------------------------------------------
(* Properties of the create command's --variable overrides *)

\* The positions of the --variable arguments that hold no "=".
Malformed == {i \in 1..Len(cc.flagVariables) : ~StringsCut(cc.flagVariables[i], "=").found}

\* Every question the invocation has put to the user through the prompt
\* dispatcher, in either stage.
NoPromptIssued == run.prompts = <<>> /\ run2.prompts = <<>>

\* C12  A malformed override aborts immediately: when some --variable string holds
\* no "=", wherever it stands among the overrides, the command goes from its start
\* straight to its return; it returns the format error of the first such string,
\* and no prompt has been issued, no call made on the sink and nothing recorded.
C12_MalformedOverrideAborts ==
    (cc.pc # "none" /\ Malformed # {})
        => /\ cc.pc \in {"run", "done"}
           /\ NoPromptIssued
           /\ cc.sink.calls = <<>>
           /\ cc.recorded = EmptyMap
           /\ cc.pc = "done" =>
                 \E i \in Malformed :
                    /\ \A j \in Malformed : i <= j
                    /\ cc.err = "invalid variable format: " \o Join(cc.flagVariables[i])

\* The command has returned on a malformed override that comes after a
\* well-formed one.
C12_Witness ==
    /\ cc.pc = "done"
    /\ cc.flagVariables = <<FlagPort, FlagNoEq>>
    /\ cc.err = "invalid variable format: Afa"
    /\ cc.flagVariablesMap = [k \in {"PORT"} |-> "90"]

\* The names the prompt dispatcher was invoked for during the resolution r.
PromptedIn(r) == {r.prompts[i].name : i \in 1..Len(r.prompts)}

\* The variable map m handed to materialization holds every override.
HoldsOverrides(m) ==
    m.isNil \/ \A n \in DOMAIN cc.flagVariablesMap :
                  n \in DOMAIN m.m /\ m.m[n] = cc.flagVariablesMap[n]

\* C13  Command-line overrides are definitive: for every well-formed override
\* name=value the prompt dispatcher is never invoked for name, in either stage, and
\* the variable map each stage hands to materialization maps name to the value of
\* its last occurrence.
C13_OverridesAreDefinitive ==
    (cc.pc # "none" /\ Malformed = {})
        => /\ \A n \in DOMAIN cc.flagVariablesMap :
                 n \notin PromptedIn(run) \cup PromptedIn(run2)
           /\ HoldsOverrides(cc.dockerInputs)
           /\ HoldsOverrides(cc.deployInputs)

-----------------------------------------------------------------------------
(* Properties of the config document *)

\* The map `resolved` returned by validateConfigInputsToPrompts(ds, provided) holds
\* every non-empty provided value as it was given, and a non-empty value for every
\* declared variable.
FromConfigVerbatim(ds, provided, resolved) ==
    resolved.isNil
    \/ /\ \A i \in 1..Len(provided) :
             provided[i].Value # "" => Get(resolved.m, provided[i].Name) = provided[i].Value
       /\ \A n \in DeclNames(ds) : Get(resolved.m, n) # ""

\* The stage returned an error of validateConfigInputsToPrompts about the variable n.
ConfigError(n) ==
    cc.err \in {"validate config inputs to prompts: variable " \o n \o " has no default value",
                "config missing required variable: " \o n,
                "value for variable " \o n \o " is empty"}

-----------------------------------------------------------------------------
(* Properties of the materialization *)

\* C15  Substitution completeness: for every template text and resolved set, the
\* output of handleTemplateReplacement holds no {{NAME}} marker of a resolved
\* NAME, holds the variable's value wherever the text had such a marker, and holds
\* every other piece of the text, the markers of unresolved names included, as the
\* text had it.
C15_SubstitutionComplete ==
    call.pc \in {"once", "twice"}
        => \A i \in 1..Len(call.content) :
              /\ \A n \in DOMAIN call.customInputs : call.pieces[i] # Marker(n)
              /\ \A n \in DOMAIN call.customInputs :
                    call.content[i] = Marker(n) => call.pieces[i] = call.customInputs[n]
              /\ (\A n \in DOMAIN call.customInputs : call.content[i] # Marker(n))
                    => call.pieces[i] = call.content[i]

\* C16  Substitution is confluent: for every template text and every resolved set
\* of two or more variables, handleTemplateReplacement gives the same output
\* whatever the order in which the variables are substituted, also when the value
\* of one variable holds the marker of another.
C16_SubstitutionConfluent ==
    (call.pc = "twice" /\ Cardinality(DOMAIN call.customInputs) >= 2)
        => call.out = call.out2

\* What a TemplateWriter was handed: the operation, the path and the content of
\* each call, in order.
Handed(sink) ==
    [k \in 1..Len(sink.calls) |->
        [op |-> sink.calls[k].op, path |-> sink.calls[k].path, data |-> sink.calls[k].data]]

\* C17  Dry-run equivalence: for the same template tree, resolved variables and
\* name overrides, two runs of CopyDir that both return no error, one on the
\* recording sink and one on the real sink, hand the two sinks the same sequence
\* of EnsureDirectory paths and of (destination path, content) pairs.
C17_DryRunEquivalence ==
    (call.pc = "both" /\ call.recorder.err = "" /\ call.localFS.err = "")
        => Handed(call.recorder) = Handed(call.localFS)

\* C18  The dry-run report records the final resolved variables: in every stage of
\* a dry-run invocation the (name, value) pairs the stage hands to the variable
\* recorder are the variable map its files are substituted with, the command-line
\* overrides merged in.
C18_ReportHoldsFinalVariables ==
    (cc.pc # "none" /\ cc.dryRun)
        => /\ ~cc.dockerInputs.isNil => cc.dockerRecorded = cc.dockerInputs
           /\ ~cc.deployInputs.isNil => cc.deployRecorded = cc.deployInputs

\* The entries of a template tree, each with the destination directory CopyDir is
\* in when it meets the entry, and whether the entry bears the reserved name
\* (`named`) or lies beneath a directory that does (`beneath`).
RECURSIVE EntriesFrom(_, _, _, _)
EntriesFrom(i, files, dest, beneath) ==
    IF i > Len(files) THEN {}
    ELSE LET f == files[i]
         IN  {[dir |-> dest, name |-> f.name, isDir |-> f.isDir,
               named |-> f.name = "draft.yaml", beneath |-> beneath]}
             \cup (IF f.isDir
                   THEN EntriesFrom(1, f.files, dest \o "/" \o f.name,
                                    beneath \/ f.name = "draft.yaml")
                   ELSE {})
             \cup EntriesFrom(i + 1, files, dest, beneath)

Entries == EntriesFrom(1, call.files, ".", FALSE)

\* The calls a sink got for the entry e.
CallsFor(sink, e) ==
    {k \in 1..Len(sink.calls) : sink.calls[k].dir = e.dir /\ sink.calls[k].name = e.name}

\* The runs of CopyDir that have returned, by the sink they were given.
Returned ==
    (IF call.pc \in {"recorded", "both"} THEN {call.recorder} ELSE {})
        \cup (IF call.pc = "both" THEN {call.localFS} ELSE {})

\* C19 as the spec has it: CopyDir calls neither WriteFile nor EnsureDirectory for
\* an entry named draft.yaml, at any depth, and every other leaf file of the tree
\* is written exactly once.
C19_EveryOtherLeafWrittenOnce ==
    call.pc \in {"recorded", "both"}
        => \A sink \in Returned : \A e \in Entries :
              /\ e.named => CallsFor(sink, e) = {}
              /\ (~e.named /\ ~e.isDir) => Cardinality(CallsFor(sink, e)) = 1

\* C19  The reserved file is never copied: for every template tree, CopyDir calls
\* neither WriteFile nor EnsureDirectory for an entry named draft.yaml, at any
\* depth, nor for an entry beneath a directory of that name; every other leaf file
\* is written at most once, and exactly once when CopyDir returns no error.
C19_ReservedNeverCopied ==
    call.pc \in {"recorded", "both"}
        => \A sink \in Returned : \A e \in Entries :
              /\ (e.named \/ e.beneath) => CallsFor(sink, e) = {}
              /\ (~e.named /\ ~e.beneath /\ ~e.isDir)
                    => /\ Cardinality(CallsFor(sink, e)) <= 1
                       /\ \A k \in CallsFor(sink, e) : sink.calls[k].op = "WriteFile"
                       /\ sink.err = "" => Cardinality(CallsFor(sink, e)) = 1

\* CopyDir has returned no error on a tree that holds the reserved file inside a
\* directory, and on one that holds a directory of the reserved name.
C19_Witness ==
    /\ call.pc = "both"
    /\ call.localFS.err = ""
    /\ \E e \in Entries : e.named /\ e.dir # "." /\ ~e.isDir
    /\ \E k \in 1..Len(call.localFS.calls) : call.localFS.calls[k].path = "./charts/values.yaml"

\* C20  Directories are ensured before they are written into: in every run of
\* CopyDir each WriteFile into a directory below the destination comes after an
\* EnsureDirectory of that directory that succeeded; and when EnsureDirectory
\* fails for a directory, nothing is written into it, CopyDir makes no further
\* call and returns that error.
C20_EnsuredBeforeWritten ==
    call.pc \in {"recorded", "both"}
        => \A sink \in Returned : \A k \in 1..Len(sink.calls) :
              /\ (sink.calls[k].op = "WriteFile" /\ sink.calls[k].dir # ".")
                    => \E j \in 1..(k - 1) :
                          /\ sink.calls[j].op = "EnsureDirectory"
                          /\ sink.calls[j].path = sink.calls[k].dir
                          /\ sink.calls[j].ok
              /\ (sink.calls[k].op = "EnsureDirectory" /\ ~sink.calls[k].ok)
                    => /\ k = Len(sink.calls)
                       /\ \A j \in 1..Len(sink.calls) : sink.calls[j].dir # sink.calls[k].path
                       /\ sink.err = "could not create " \o sink.calls[k].path

\* One run of CopyDir wrote a file two directories down, and the other run, on
\* the same tree, was refused the upper of the two directories.
C20_Witness ==
    /\ call.pc = "both"
    /\ \E k \in 1..Len(call.recorder.calls) :
          /\ call.recorder.calls[k].op = "WriteFile"
          /\ call.recorder.calls[k].path = "./charts/templates/service.yaml"
    /\ \E k \in 1..Len(call.localFS.calls) :
          /\ call.localFS.calls[k].op = "EnsureDirectory"
          /\ call.localFS.calls[k].path = "./charts"
          /\ ~call.localFS.calls[k].ok
    /\ call.localFS.err = "could not create ./charts"

-----------------------------------------------------------------------------
(* Properties of the output sink *)

\* The path, or one of its parents, is not a directory, or the system refuses a
\* directory that has to be made for it.
CannotBeCreated ==
    \/ \E i \in 1..call.dir : call.before[i] = "file"
    \/ \E i \in 1..call.dir : call.before[i] = "absent" /\ call.failAt = i

\* A second call after a first that succeeded succeeds and changes nothing.
EnsureIdempotent ==
    (call.pc = "twice" /\ call.err = "") => (call.err2 = "" /\ call.fs2 = call.fs)

\* C21 as the spec has it: EnsureDirectory is idempotent, and it fails only when the
\* path exists and is not a directory or the directory cannot be created, and
\* then changes nothing.
C21_FailureChangesNothing ==
    /\ EnsureIdempotent
    /\ (call.pc \in {"once", "twice"} /\ call.err # "")
          => /\ CannotBeCreated
             /\ call.fs = call.before

\* C21  EnsureDirectory is idempotent: a second call on the same path after a
\* first that succeeded succeeds and leaves the file system unchanged. It fails
\* only when the path exists and is not a directory or the directory cannot be
\* created; a failure leaves the path as it was and removes nothing, but missing
\* parents made before the failure stay.
C21_EnsureDirectoryIdempotent ==
    /\ EnsureIdempotent
    /\ (call.pc \in {"once", "twice"} /\ call.err = "") => call.fs[call.dir] = "dir"
    /\ (call.pc \in {"once", "twice"} /\ call.err # "")
          => /\ CannotBeCreated
             /\ call.fs[call.dir] = call.before[call.dir]
             /\ \A i \in 1..MaxDepth :
                   call.fs[i] # call.before[i]
                     => (i < call.dir /\ call.before[i] = "absent" /\ call.fs[i] = "dir")

\* Two calls on a path whose parent did not exist either: the first made both
\* directories and the second found them.
C21_Witness ==
    /\ call.pc = "twice"
    /\ call.dir >= 2
    /\ call.before[call.dir - 1] = "absent"
    /\ call.err = "" /\ call.err2 = ""
    /\ call.fs[call.dir] = "dir"

-----------------------------------------------------------------------------
(* Properties of the prompt dispatcher *)

\* C23  Seed fallback in the string prompt: RunDefaultableStringPrompt returns
\* the seed when the seed is non-empty and the user's answer is empty, and
\* returns the user's answer unchanged whenever the answer is non-empty.
C23_SeedFallback ==
    (call.pc = "returned" /\ call.answer # Abort)
      => /\ (call.defaultValue # "" /\ call.answer = "")
              => (call.input = call.defaultValue /\ call.err = "")
         /\ call.answer # "" => (call.input = call.answer /\ call.err = "")

\* An empty answer at a prompt that shows a seed.
C23_Witness ==
    /\ call.pc = "returned"
    /\ call.defaultValue = "dflta"
    /\ call.answer = ""
    /\ call.input = "dflta"
    /\ call.err = ""

\* C24  Blank input is rejected without a seed: for every call of
\* RunDefaultableStringPrompt with an empty defaultValue, whatever validate
\* argument is passed, the function never returns an empty string together with
\* a nil error.
C24_BlankRejectedWithoutSeed ==
    (call.pc = "returned" /\ call.defaultValue = "")
      => ~(call.input = "" /\ call.err = "")

-----------------------------------------------------------------------------
(* Properties of the reference chase *)

\* The defaults the run has computed for the variable `name`: the seeds of its
\* string prompts and, if its prompt is disabled, what the loop took for it.
DefaultsComputed(r, d) ==
    {r.prompts[i].seed : i \in {j \in 1..Len(r.prompts) :
                                   r.prompts[j].name = d.Name /\ r.prompts[j].kind = "string"}}
    \cup (IF d.IsPromptDisabled /\ d.Name \in r.visited THEN {Get(r.inputs, d.Name)} ELSE {})

\* C25 as the spec has it: with a chain c -> b -> a the default computed for c is
\* never the value a holds.
C25_ChainValueNeverObtained ==
    \A c \in DeclNames(decls), b \in DeclNames(decls), a \in DeclNames(decls) :
        IsChain(decls, c, b, a)
          => \A v \in DefaultsComputed(run, DeclOf(decls, c)) :
                ~(a \in run.visited /\ v # "" /\ v = Get(run.inputs, a))

\* C25  The reference chase is exactly one hop: the default computed for a
\* variable is the value its direct referenceVariable holds at that moment, if
\* that is non-empty, and the variable's literal default otherwise; the
\* referenced variable's own referenceVariable is never read. So with a chain
\* c -> b -> a the variable c obtains a's value only when b has been resolved
\* before c and itself holds a's value.
C25_OneHopChase ==
    /\ \A i \in 1..Len(decls) :
          decls[i].ReferenceVar # ""
            => \A v \in DefaultsComputed(run, decls[i]) :
                  \/ v = decls[i].Value
                  \/ /\ decls[i].ReferenceVar \in run.visited
                     /\ v = Get(run.inputs, decls[i].ReferenceVar)
    /\ \A c \in DeclNames(decls), b \in DeclNames(decls), a \in DeclNames(decls) :
          IsChain(decls, c, b, a)
            => \A v \in DefaultsComputed(run, DeclOf(decls, c)) :
                  (a \in run.visited /\ v # "" /\ v = Get(run.inputs, a))
                    => (b \in run.visited /\ Get(run.inputs, b) = Get(run.inputs, a))

\* a holds a value and the default of c is computed while b holds none: c gets
\* its literal default.
C25_Witness ==
    \E c \in DeclNames(decls), b \in DeclNames(decls), a \in DeclNames(decls) :
        /\ IsChain(decls, c, b, a)
        /\ run.visited = {a, c}
        /\ Get(run.inputs, a) # ""
        /\ DeclOf(decls, c).IsPromptDisabled
        /\ DeclOf(decls, b).Value # ""
        /\ Get(run.inputs, c) = DeclOf(decls, c).Value
        /\ Get(run.inputs, c) # ""

\* The operation, the directory, the entry and the content of each call a
\* TemplateWriter got, in order, and how the writer answered.
HandedButPath(sink) ==
    [k \in 1..Len(sink.calls) |->
        [op |-> sink.calls[k].op, dir |-> sink.calls[k].dir, name |-> sink.calls[k].name,
         data |-> sink.calls[k].data, ok |-> sink.calls[k].ok]]

\* The runs of CopyDir on the arguments of `call` but without a config.
CopyRunsNilConfig ==
    {CopyDir(call.files, ".", [isNil |-> TRUE, nameOverrides |-> EmptyMap],
             call.customInputs, order, failAt, NewSink) :
        order \in Perms(DOMAIN call.customInputs),
        failAt \in 0..CountNodes(1, call.files)}

\* C22  Name override: for every leaf file the path CopyDir passes to WriteFile
\* is dest/prefix+name when the config has a non-empty name-override prefix for
\* the file's name, and dest/name otherwise, also when the config is nil; the
\* override changes neither the file's content nor its directory: but for the
\* paths, the calls are those of a run without a config.
C22_NameOverride ==
    call.pc \in {"recorded", "both"}
        => \A sink \in Returned :
              /\ \A k \in 1..Len(sink.calls) :
                    sink.calls[k].op = "WriteFile"
                      => sink.calls[k].path =
                           sink.calls[k].dir \o "/" \o
                             (IF ~call.config.isNil
                                   /\ Get(call.config.nameOverrides, sink.calls[k].name) # ""
                              THEN call.config.nameOverrides[sink.calls[k].name]
                                       \o sink.calls[k].name
                              ELSE sink.calls[k].name)
              /\ \E plain \in CopyRunsNilConfig : HandedButPath(plain) = HandedButPath(sink)

\* A run with the name override has written deployment.yaml of the directory
\* base under the prefixed name, inside base, and the one of the root likewise.
C22_Witness ==
    /\ call.pc = "both"
    /\ ~call.config.isNil
    /\ call.localFS.err = ""
    /\ \E k \in 1..Len(call.localFS.calls) :
          /\ call.localFS.calls[k].path = "./base/helm-deployment.yaml"
          /\ call.localFS.calls[k].data = "vb"
    /\ \E k \in 1..Len(call.localFS.calls) :
          call.localFS.calls[k].path = "./helm-deployment.yaml"

\* The (destination path, content) pairs a run of CopyDir passed to WriteFile.
Written(sink) ==
    {<<sink.calls[k].path, sink.calls[k].data>> :
        k \in {j \in 1..Len(sink.calls) : sink.calls[j].op = "WriteFile"}}

\* C26  CopyDirToFileMap agrees with CopyDir: for every template tree the map
\* CopyDirToFileMap returns holds exactly the (destination path, content) pairs
\* a run of CopyDir without an error passes to WriteFile for the same arguments;
\* no file is lost.
C26_FileMapAgreesWithCopyDir ==
    (call.pc = "copied" /\ call.sink.err = "")
        => {<<p, call.fileMap[p]>> : p \in DOMAIN call.fileMap} = Written(call.sink)

-----------------------------------------------------------------------------
(* Properties of the workflow variables *)

\* How often the user was prompted for `name`.
TimesPrompted(name) ==
    Cardinality({i \in 1..Len(call.prompts) : call.prompts[i] = name})

\* C27  RunPromptsForDeployTypeWithSkipsIO resolves each common workflow variable
\* exactly once: for every deploy type and skip set, each of ACR_RESOURCE_GROUP,
\* ACR_NAME, BRANCH_NAME, BUILD_CONTEXT_PATH, CLUSTER_NAME,
\* CLUSTER_RESOURCE_GROUP and CONTAINER_NAME that is not skipped has an entry in
\* the returned map, and the user is prompted for each at most once.
C27_CommonVariablesResolvedOnce ==
    call.pc = "prompted"
        => \A f \in CommonFields :
              EnvVarName(f) \notin call.varsToSkip
                => /\ TimesPrompted(EnvVarName(f)) <= 1
                   /\ ~call.ret.isNil => EnvVarName(f) \in DOMAIN call.ret.m

\* C30  After FillWorkflowEnv every workflow variable with DisablePrompt=true
\* has a non-empty Value, so RunPromptsForDeployTypeWithSkipsIO with an empty
\* skip set never fails with "no default value was found" for helm, kustomize or
\* manifests; a Value set before the call is preserved.
C30_FilledDefaultsNonEmpty ==
    /\ call.pc \in {"filled", "prompted"}
          => \A f \in DOMAIN call.workflowEnv :
                /\ call.workflowEnv[f].DisablePrompt => call.workflowEnv[f].Value # ""
                /\ Get(call.flagValues, f) # ""
                      => call.workflowEnv[f].Value = call.flagValues[f]
    /\ (call.pc = "prompted" /\ call.varsToSkip = {} /\ call.deployType \in DeployTypes)
          => \A f \in DOMAIN call.workflowEnv : call.err # ErrNoDefault(EnvVarName(f))

-----------------------------------------------------------------------------
(* Properties of generate-workflow *)

\* C28  generate-workflow substitutes with the full resolved set: the variable
\* map passed to GenerateWorkflowBytes contains every value obtained from
\* RunPromptsForDeployTypeWithSkipsIO as well as every flag value, flag values
\* winning on a shared name.
C28_SubstitutesFullResolvedSet ==
    ~call.envArgsMap.isNil
        => /\ \A k \in DOMAIN call.flagValuesMap.m :
                 Get(call.envArgsMap.m, k) = call.flagValuesMap.m[k]
           /\ \A k \in (DOMAIN call.prompted.m) \ (DOMAIN call.flagValuesMap.m) :
                 /\ k \in DOMAIN call.envArgsMap.m
                 /\ call.envArgsMap.m[k] = call.prompted.m[k]

\* C29  generate-workflow reports success only if the workflow file was written:
\* whenever EnsureDirectory or WriteFile fails inside writeFile, or the deploy
\* type is unsupported, the command returns an error and does not log success;
\* on success the file at the deploy type's workflow path holds the generated
\* bytes.
C29_SuccessOnlyIfWritten ==
    call.pc = "done"
        => /\ (call.writeErr \notin {Nil, ""} \/ call.deployType \notin DeployTypes)
                 => (call.err # "" /\ ~call.success)
           /\ call.success
                 => /\ call.disk.fs[MaxDepth] = "file"
                    /\ call.disk.content = call.workflowBytes

====
